---- MODULE Spec2Model ----
(***************************************************************************)
(* CDF tracker backend: the relational entity store (Constituency,         *)
(* Project, Contractor, ProcurementAward, User) and the HTTP handlers, the *)
(* access guard and the CSV import that read and mutate it.                *)
(*                                                                         *)
(* Every handler runs in its own Session; session.commit() either applies  *)
(* the whole unit of work or raises (the handler does not catch it, the    *)
(* framework answers 500 and the store is unchanged).  The store enforces  *)
(* the constraints the table models declare: primary keys, NOT NULL        *)
(* columns and the declared foreign keys.  ProcurementAward.project_id is  *)
(* declared with index=True only, so the store has no uniqueness           *)
(* constraint on it.                                                       *)
(***************************************************************************)
EXTENDS Integers, Sequences, FiniteSets, TLC

VARIABLES
    constituencies,     \* set of Constituency rows
    projects,           \* set of Project rows
    contractors,        \* set of Contractor rows
    awards,             \* set of ProcurementAward rows
    nextProjectId,      \* autoincrement of project.id
    nextContractorId,   \* autoincrement of contractor.id
    nextAwardId,        \* autoincrement of procurementaward.id
    now,                \* the server clock read by datetime.utcnow()
    resp,               \* the last request and its response
    sess,               \* the in-flight concurrent create_award requests
    users,              \* set of User rows
    nextUserId,         \* autoincrement of user.id
    tokens,             \* the access tokens issued so far
    feedbacks,          \* set of Feedback rows
    nextFeedbackId,     \* autoincrement of feedback.id
    images,             \* set of ProjectImage rows
    nextImageId,        \* autoincrement of projectimage.id
    bucket,             \* the object names stored in the MinIO bucket
    nextUuid            \* the uuid4() values drawn so far, plus one

vars == <<constituencies, projects, contractors, awards,
          nextProjectId, nextContractorId, nextAwardId, now, resp, sess,
          users, nextUserId, tokens, feedbacks, nextFeedbackId, images,
          nextImageId, bucket, nextUuid>>

store == <<constituencies, projects, contractors, awards,
           nextProjectId, nextContractorId, nextAwardId>>

\* the user table and the tokens in the clients' hands
auth == <<users, nextUserId, tokens>>

\* the citizens' feedback, the project images and the object storage
media == <<feedbacks, nextFeedbackId, images, nextImageId, bucket, nextUuid>>

\* Python None in a string-valued column or field
None == "None"
\* Python None in an integer id column or field (ids start at 1)
NoId == 0
\* Python None in a datetime column (the clock starts at 1)
NoTime == 0

\* ---- bounds of the model ------------------------------------------------
MaxProjectId == 2
MaxContractorId == 2
MaxAwardId == 2
MaxTime == 2
MaxUserId == 2
MaxFeedbackId == 2
MaxImageId == 2
MaxUuid == 3

ProjectIds == 1..MaxProjectId
ContractorIds == 1..MaxContractorId
AwardIds == 1..MaxAwardId

\* the concurrent requests, each in its own Session
Requests == {1, 2}

\* ---- table models -------------------------------------------------------
ProjectCategory ==
    {"Education", "Health", "Water", "Infrastructure", "Security",
     "Environment", "Other"}

ProjectStatus == {"Planned", "Ongoing", "Completed", "Flagged"}

ConstituencyRequired == {"code", "name", "county", "mp_name"}

ConstituencyDefaults == [population |-> None, pas_score |-> None]

ProjectRequired == {"title", "category", "budget", "constituency_code"}

\* Project's column defaults; id and last_updated are filled by the caller
ProjectDefaults ==
    [description |-> None, status |-> "Planned", spent |-> None,
     progress |-> None, start_date |-> None, completion_date |-> None,
     is_mock |-> "true", source_name |-> None, source_url |-> None,
     source_doc_ref |-> None]

\* ProcurementAwardCreate's defaults
AwardCreateDefaults ==
    [tender_id |-> None, procurement_method |-> None,
     contract_value |-> None, award_date |-> None,
     contractor_share_hint |-> None, performance_flag |-> "false",
     performance_flag_reason |-> None]

\* the fields of ProcurementAwardUpdate
AwardUpdateFields ==
    {"contractor_id", "tender_id", "procurement_method", "contract_value",
     "award_date", "contractor_share_hint", "performance_flag",
     "performance_flag_reason"}

ContractorDefaults ==
    [phone |-> None, email |-> None, registration_no |-> None,
     address |-> None]

\* ---- helpers ------------------------------------------------------------
\* a body or payload is a function from the fields the client set to values
Has(body, f) == f \in DOMAIN body

\* model_dump(): every field, the unset ones at their default
WithDefaults(body, defaults) ==
    [f \in (DOMAIN body) \cup (DOMAIN defaults) |->
        IF f \in DOMAIN body THEN body[f] ELSE defaults[f]]

\* a full replace: the fields absent from the request are reset to None
SetAttrs_replace(row, data) ==
    [f \in DOMAIN row |->
        IF f \in DOMAIN data THEN data[f]
        ELSE IF f \in {"id", "project_id", "contractor_id", "created_at"}
        THEN row[f] ELSE None]

\* for k, v in data.items(): setattr(row, k, v)
SetAttrs(row, data) ==
    [f \in DOMAIN row |-> IF f \in DOMAIN data THEN data[f] ELSE row[f]]

\* session.get(Model, key)
GetProject(id) == {p \in projects : p.id = id}
GetContractor(id) == {c \in contractors : c.id = id}
GetAward(id) == {a \in awards : a.id = id}
GetConstituency(code) == {c \in constituencies : c.code = code}

Respond(op, req, status, body) ==
    resp' = [op |-> op, req |-> req, status |-> status, body |-> body]

\* ---- the constraints the store enforces at commit ------------------------
\* primary key: no two rows of a table share the key
PrimaryKeyOk(rows) ==
    \A r1 \in rows : \A r2 \in rows : r1.id = r2.id => r1 = r2

ConstituencyKeyOk(rows) ==
    \A r1 \in rows : \A r2 \in rows : r1.code = r2.code => r1 = r2

\* a store that does not enforce the project's foreign key to constituency
ProjectFkOk_unenforced(ps, cs) == TRUE

\* project.constituency_code -> constituency.code, NOT NULL
ProjectFkOk(ps, cs) ==
    \A p \in ps : \E c \in cs : c.code = p.constituency_code

\* a store that does not enforce the award's foreign key to project
AwardProjectFkOk_unenforced(as, ps) == TRUE

\* procurementaward.project_id -> project.id, NOT NULL
AwardProjectFkOk(as, ps) ==
    \A a \in as : \E p \in ps : p.id = a.project_id

\* a store that does not enforce the award's foreign key to contractor
AwardContractorFkOk_unenforced(as, ks) == TRUE

\* procurementaward.contractor_id -> contractor.id, NOT NULL
AwardContractorFkOk(as, ks) ==
    \A a \in as : \E k \in ks : k.id = a.contractor_id

\* feedback.project_id -> project.id, NOT NULL
FeedbackFkOk(fs, ps) ==
    \A f \in fs : \E p \in ps : p.id = f.project_id

\* projectimage.project_id -> project.id, NOT NULL
ImageFkOk(is, ps) ==
    \A i \in is : \E p \in ps : p.id = i.project_id

\* what commit() checks of the whole store after a unit of work
CommitOk(cs, ps, ks, as) ==
    /\ ConstituencyKeyOk(cs)
    /\ PrimaryKeyOk(ps)
    /\ PrimaryKeyOk(ks)
    /\ PrimaryKeyOk(as)
    /\ ProjectFkOk(ps, cs)
    /\ AwardProjectFkOk(as, ps)
    /\ AwardContractorFkOk(as, ks)
    /\ FeedbackFkOk(feedbacks, ps)
    /\ ImageFkOk(images, ps)

Init ==
    /\ constituencies = {}
    /\ projects = {}
    /\ contractors = {}
    /\ awards = {}
    /\ nextProjectId = 1
    /\ nextContractorId = 1
    /\ nextAwardId = 1
    /\ now = 1
    /\ resp = [op |-> "none", req |-> <<>>, status |-> 0, body |-> <<>>]
    /\ sess = [r \in Requests |-> [pc |-> "idle"]]
    /\ users = {}
    /\ nextUserId = 1
    /\ tokens = {}
    /\ feedbacks = {}
    /\ nextFeedbackId = 1
    /\ images = {}
    /\ nextImageId = 1
    /\ bucket = {}
    /\ nextUuid = 1

\* ---- contractor_router.py -------------------------------------------------
create_contractor(payload) ==
    /\ nextContractorId <= MaxContractorId
    /\ LET contractor ==
             WithDefaults(payload, ContractorDefaults)
                 @@ [id |-> nextContractorId, created_at |-> now]
       IN /\ contractors' = contractors \cup {contractor}
          /\ nextContractorId' = nextContractorId + 1
          /\ Respond("create_contractor", payload, 201, <<contractor>>)
    /\ UNCHANGED <<constituencies, projects, awards, nextProjectId,
                   nextAwardId, now, sess, auth, media>>

\* deleting a contractor de-associates its awards (contractor_id := NULL,
\* a NOT NULL column), so the commit fails while an award references it
delete_contractor(contractor_id) ==
    LET found == GetContractor(contractor_id)
        req == [contractor_id |-> contractor_id]
    IN /\ IF found = {}
          THEN /\ Respond("delete_contractor", req, 404, <<>>)
               /\ UNCHANGED contractors
          ELSE IF AwardContractorFkOk(awards, contractors \ found)
          THEN /\ contractors' = contractors \ found
               /\ Respond("delete_contractor", req, 204, <<>>)
          ELSE /\ Respond("delete_contractor", req, 500, <<>>)
               /\ UNCHANGED contractors
       /\ UNCHANGED <<constituencies, projects, awards, nextProjectId,
                      nextContractorId, nextAwardId, now, sess, auth, media>>

\* ---- procurement_award_router.py ------------------------------------------
NewAward(payload, id) ==
    WithDefaults(payload, AwardCreateDefaults)
        @@ [id |-> id, created_at |-> now]

\* a create_award that skips the one-award-per-project check
ExistingAward_unchecked(project_id) == {}

\* select(ProcurementAward).where(project_id == payload.project_id)
ExistingAward(project_id) == {a \in awards : a.project_id = project_id}

create_award(payload) ==
    LET existing == ExistingAward(payload.project_id)
        award == NewAward(payload, nextAwardId)
    IN /\ IF existing # {}
          THEN /\ Respond("create_award", payload, 400, <<>>)
               /\ UNCHANGED <<awards, nextAwardId>>
          ELSE IF CommitOk(constituencies, projects, contractors,
                           awards \cup {award})
          THEN /\ nextAwardId <= MaxAwardId
               /\ awards' = awards \cup {award}
               /\ nextAwardId' = nextAwardId + 1
               /\ Respond("create_award", payload, 200, <<award>>)
          ELSE /\ Respond("create_award", payload, 500, <<>>)
               /\ UNCHANGED <<awards, nextAwardId>>
       /\ UNCHANGED <<constituencies, projects, contractors, nextProjectId,
                      nextContractorId, now, sess, auth, media>>

update_award(award_id, data) ==
    LET found == GetAward(award_id)
        req == [award_id |-> award_id, data |-> data]
    IN /\ IF found = {}
          THEN /\ Respond("update_award", req, 404, <<>>)
               /\ UNCHANGED awards
          ELSE LET award == CHOOSE a \in found : TRUE
                   updated == SetAttrs(award, data)
                   after == (awards \ {award}) \cup {updated}
               IN IF CommitOk(constituencies, projects, contractors, after)
                  THEN /\ awards' = after
                       /\ Respond("update_award", req, 200, <<updated>>)
                  ELSE /\ Respond("update_award", req, 500, <<>>)
                       /\ UNCHANGED awards
       /\ UNCHANGED <<constituencies, projects, contractors, nextProjectId,
                      nextContractorId, nextAwardId, now, sess, auth, media>>

\* a delete that removes every award of the same contractor
delete_award_cascading(award_id) ==
    LET found == GetAward(award_id)
        req == [award_id |-> award_id]
    IN /\ IF found = {}
          THEN /\ Respond("delete_award", req, 404, <<>>)
               /\ UNCHANGED awards
          ELSE /\ awards' =
                     {a \in awards :
                         \A d \in found : a.contractor_id # d.contractor_id}
               /\ Respond("delete_award", req, 200, <<>>)
       /\ UNCHANGED <<constituencies, projects, contractors, nextProjectId,
                      nextContractorId, nextAwardId, now, sess, auth, media>>

delete_award(award_id) ==
    LET found == GetAward(award_id)
        req == [award_id |-> award_id]
    IN /\ IF found = {}
          THEN /\ Respond("delete_award", req, 404, <<>>)
               /\ UNCHANGED awards
          ELSE /\ awards' = awards \ found
               /\ Respond("delete_award", req, 200, <<>>)
       /\ UNCHANGED <<constituencies, projects, contractors, nextProjectId,
                      nextContractorId, nextAwardId, now, sess, auth, media>>

\* ---- constituency_router.py -----------------------------------------------
\* request validation of a Constituency body
ValidConstituencyBody(body) == ConstituencyRequired \subseteq DOMAIN body

create_constituency(body) ==
    LET constituency == WithDefaults(body, ConstituencyDefaults)
    IN /\ IF ~ValidConstituencyBody(body)
          THEN /\ Respond("create_constituency", body, 422, <<>>)
               /\ UNCHANGED constituencies
          ELSE IF GetConstituency(constituency.code) = {}
          THEN /\ constituencies' = constituencies \cup {constituency}
               /\ Respond("create_constituency", body, 201, <<constituency>>)
          ELSE /\ Respond("create_constituency", body, 500, <<>>)
               /\ UNCHANGED constituencies
       /\ UNCHANGED <<projects, contractors, awards, nextProjectId,
                      nextContractorId, nextAwardId, now, sess, auth, media>>

update_constituency(code, body) ==
    LET found == GetConstituency(code)
        req == [code |-> code, body |-> body]
    IN /\ IF ~ValidConstituencyBody(body)
          THEN /\ Respond("update_constituency", req, 422, <<>>)
               /\ UNCHANGED constituencies
          ELSE IF found = {}
          THEN /\ Respond("update_constituency", req, 404, <<>>)
               /\ UNCHANGED constituencies
          ELSE LET constituency == CHOOSE c \in found : TRUE
                   updated == SetAttrs(constituency, body)
                   after == (constituencies \ {constituency}) \cup {updated}
               IN IF /\ updated.code = code
                        \/ GetConstituency(updated.code) = {}
                     /\ CommitOk(after, projects, contractors, awards)
                  THEN /\ constituencies' = after
                       /\ Respond("update_constituency", req, 200, <<updated>>)
                  ELSE /\ Respond("update_constituency", req, 500, <<>>)
                       /\ UNCHANGED constituencies
       /\ UNCHANGED <<projects, contractors, awards, nextProjectId,
                      nextContractorId, nextAwardId, now, sess, auth, media>>

delete_constituency(code) ==
    LET found == GetConstituency(code)
        req == [code |-> code]
    IN /\ IF found = {}
          THEN /\ Respond("delete_constituency", req, 404, <<>>)
               /\ UNCHANGED constituencies
          ELSE IF CommitOk(constituencies \ found, projects, contractors,
                           awards)
          THEN /\ constituencies' = constituencies \ found
               /\ Respond("delete_constituency", req, 204, <<>>)
          ELSE /\ Respond("delete_constituency", req, 500, <<>>)
               /\ UNCHANGED constituencies
       /\ UNCHANGED <<projects, contractors, awards, nextProjectId,
                      nextContractorId, nextAwardId, now, sess, auth, media>>

\* ---- project_router.py ----------------------------------------------------
\* request validation of a Project body: required fields and enum members
ValidProjectBody(body) ==
    /\ ProjectRequired \subseteq DOMAIN body
    /\ body.category \in ProjectCategory
    /\ Has(body, "status") => body.status \in ProjectStatus

\* handlers that do not look the constituency up
ConstituencyMissing_skipped(code) == FALSE

\* constituency = session.get(Constituency, code); if not constituency:
ConstituencyMissing(code) == GetConstituency(code) = {}

create_project(body) ==
    LET auto == ~Has(body, "id") \/ body.id = NoId
        id == IF auto THEN nextProjectId ELSE body.id
        project ==
            [f \in {"id", "last_updated"} |->
                IF f = "id" THEN id ELSE now]
                @@ WithDefaults(body, ProjectDefaults)
    IN /\ IF ~ValidProjectBody(body)
          THEN /\ Respond("create_project", body, 422, <<>>)
               /\ UNCHANGED <<projects, nextProjectId>>
          ELSE IF ConstituencyMissing(body.constituency_code)
          THEN /\ Respond("create_project", body, 404, <<>>)
               /\ UNCHANGED <<projects, nextProjectId>>
          ELSE /\ id <= MaxProjectId
               /\ nextProjectId' =
                      IF auto THEN nextProjectId + 1 ELSE nextProjectId
               /\ IF /\ GetProject(id) = {}
                     /\ CommitOk(constituencies, projects \cup {project},
                                 contractors, awards)
                  THEN /\ projects' = projects \cup {project}
                       /\ Respond("create_project", body, 201, <<project>>)
                  ELSE /\ Respond("create_project", body, 500, <<>>)
                       /\ UNCHANGED projects
       /\ UNCHANGED <<constituencies, contractors, awards, nextContractorId,
                      nextAwardId, now, sess, auth, media>>

update_project(project_id, body) ==
    LET found == GetProject(project_id)
        req == [project_id |-> project_id, body |-> body]
    IN /\ IF ~ValidProjectBody(body)
          THEN /\ Respond("update_project", req, 422, <<>>)
               /\ UNCHANGED projects
          ELSE IF found = {}
          THEN /\ Respond("update_project", req, 404, <<>>)
               /\ UNCHANGED projects
          ELSE LET project == CHOOSE p \in found : TRUE
                   updated ==
                       [SetAttrs(project, body) EXCEPT !.last_updated = now]
                   after == (projects \ {project}) \cup {updated}
               IN IF /\ body.constituency_code # project.constituency_code
                     /\ ConstituencyMissing(body.constituency_code)
                  THEN /\ Respond("update_project", req, 404, <<>>)
                       /\ UNCHANGED projects
                  ELSE IF /\ updated.id = project.id
                             \/ GetProject(updated.id) = {}
                          /\ updated.id # NoId
                          /\ CommitOk(constituencies, after, contractors,
                                      awards)
                  THEN /\ projects' = after
                       /\ Respond("update_project", req, 200, <<updated>>)
                  ELSE /\ Respond("update_project", req, 500, <<>>)
                       /\ UNCHANGED projects
       /\ UNCHANGED <<constituencies, contractors, awards, nextProjectId,
                      nextContractorId, nextAwardId, now, sess, auth, media>>

\* deleting a project de-associates its award (project_id := NULL, a NOT
\* NULL column), so the commit fails while an award references it; it
\* fails as well while a feedback or an image references the project
delete_project(project_id) ==
    LET found == GetProject(project_id)
        req == [project_id |-> project_id]
    IN /\ IF found = {}
          THEN /\ Respond("delete_project", req, 404, <<>>)
               /\ UNCHANGED projects
          ELSE IF /\ AwardProjectFkOk(awards, projects \ found)
                  /\ FeedbackFkOk(feedbacks, projects \ found)
                  /\ ImageFkOk(images, projects \ found)
          THEN /\ projects' = projects \ found
               /\ Respond("delete_project", req, 204, <<>>)
          ELSE /\ Respond("delete_project", req, 500, <<>>)
               /\ UNCHANGED projects
       /\ UNCHANGED <<constituencies, contractors, awards, nextProjectId,
                      nextContractorId, nextAwardId, now, sess, auth, media>>

\* an inner join in place of the outer join to ProcurementAward
OuterJoinAward_inner(p) ==
    {<<a>> : a \in {a \in awards : a.project_id = p.id}}

\* select(Project, Constituency, ProcurementAward, Contractor)
\*   .join(Constituency).outerjoin(ProcurementAward).outerjoin(Contractor)
\* a missing outer-joined row is <<>>, a present one is <<row>>
OuterJoinAward(p) ==
    LET matching == {a \in awards : a.project_id = p.id}
    IN IF matching = {} THEN {<<>>} ELSE {<<a>> : a \in matching}

OuterJoinContractor(award) ==
    IF award = <<>> THEN {<<>>}
    ELSE LET matching == {k \in contractors : k.id = award[1].contractor_id}
         IN IF matching = {} THEN {<<>>} ELSE {<<k>> : k \in matching}

JoinRows(ps) ==
    UNION {UNION {UNION {
        {[project |-> p, constituency |-> c, award |-> a, contractor |-> k] :
            k \in OuterJoinContractor(a)} :
            a \in OuterJoinAward(p)} :
            c \in {c \in constituencies : c.code = p.constituency_code}} :
            p \in ps}

\* d = project.dict(); d[...] = ...; ProjectReadWithConstituency(d)
ProjectView(row) ==
    row.project @@
    [constituency_name |-> row.constituency.name,
     county |-> row.constituency.county,
     mp_name |-> row.constituency.mp_name,
     contractor_name |->
        IF row.contractor # <<>> THEN row.contractor[1].name ELSE None,
     tender_id |->
        IF row.award # <<>> THEN row.award[1].tender_id ELSE None,
     procurement_method |->
        IF row.award # <<>> THEN row.award[1].procurement_method ELSE None,
     contract_value |->
        IF row.award # <<>> THEN row.award[1].contract_value ELSE None,
     award_date |->
        IF row.award # <<>> THEN row.award[1].award_date ELSE None]

read_project(project_id) ==
    LET rows == JoinRows(GetProject(project_id))
        req == [project_id |-> project_id]
    IN /\ IF rows = {}
          THEN Respond("read_project", req, 404, <<>>)
          ELSE \E row \in rows :
                   Respond("read_project", req, 200, <<ProjectView(row)>>)
       /\ UNCHANGED <<store, media, now, sess, auth>>

\* Query(20, ge=1, le=100) and Query(0, ge=0)
DefaultLimit == 20
MaxLimit == 100
DefaultSort == "last_updated_desc"

\* the titles of the model in the order the store's collation gives them
TitleOrder ==
    <<"Borehole A", "Borehole B", "Kitengela Dispensary Upgrade",
      "Yatta Health Centre Upgrade">>

TitleRank(title) ==
    IF \E i \in DOMAIN TitleOrder : TitleOrder[i] = title
    THEN CHOOSE i \in DOMAIN TitleOrder : TitleOrder[i] = title
    ELSE 0

\* request validation of read_projects' query parameters
ValidListQuery(category, status, offset, limit) ==
    /\ category \in ProjectCategory \cup {None}
    /\ status \in ProjectStatus \cup {None}
    /\ offset >= 0
    /\ limit >= 1
    /\ limit <= MaxLimit


\* if constituency_code: / if category: / if status:
FilterGiven(value) == value # None /\ value # ""

\* a query that leaves the status filter out
MatchesFilters_withoutStatus(p, constituency_code, category, status) ==
    /\ FilterGiven(constituency_code)
           => p.constituency_code = constituency_code
    /\ FilterGiven(category) => p.category = category

\* the three optional .where() clauses
MatchesFilters(p, constituency_code, category, status) ==
    /\ FilterGiven(constituency_code)
           => p.constituency_code = constituency_code
    /\ FilterGiven(category) => p.category = category
    /\ FilterGiven(status) => p.status = status

\* a list that ignores the sort parameter and keeps the default ordering
SortsBefore_unsorted(sort, r1, r2) ==
    r1.project.last_updated > r2.project.last_updated

\* the sort_field and sort_direction chosen by the if/elif chain:
\* TRUE when row r1 must come before row r2
SortsBefore(sort, r1, r2) ==
    IF sort = "id_asc" THEN r1.project.id < r2.project.id
    ELSE IF sort = "id_desc" THEN r1.project.id > r2.project.id
    ELSE IF sort = "title_asc"
    THEN TitleRank(r1.project.title) < TitleRank(r2.project.title)
    ELSE IF sort = "title_desc"
    THEN TitleRank(r1.project.title) > TitleRank(r2.project.title)
    ELSE IF sort = "last_updated_asc"
    THEN r1.project.last_updated < r2.project.last_updated
    ELSE r1.project.last_updated > r2.project.last_updated

\* the orders in which the store may return the rows under order_by: rows
\* with equal sort keys come in any order
Orderings(rows, sort) ==
    {s \in [1..Cardinality(rows) -> rows] :
        /\ \A i \in DOMAIN s : \A j \in DOMAIN s : s[i] = s[j] => i = j
        /\ \A i \in DOMAIN s : \A j \in DOMAIN s :
               i < j => ~SortsBefore(sort, s[j], s[i])}

\* a query with .offset(offset) but without .limit(limit)
Page_unlimited(s, offset, limit) ==
    IF offset >= Len(s) THEN <<>> ELSE SubSeq(s, offset + 1, Len(s))

\* query.offset(offset).limit(limit)
Page(s, offset, limit) ==
    IF offset >= Len(s) THEN <<>>
    ELSE SubSeq(s, offset + 1,
                IF offset + limit < Len(s) THEN offset + limit ELSE Len(s))

read_projects(constituency_code, category, status, sort, offset, limit) ==
    LET req == [constituency_code |-> constituency_code,
                category |-> category, status |-> status, sort |-> sort,
                offset |-> offset, limit |-> limit]
        rows == {r \in JoinRows(projects) :
                    MatchesFilters(r.project, constituency_code, category,
                                   status)}
    IN /\ IF ~ValidListQuery(category, status, offset, limit)
          THEN Respond("read_projects", req, 422, <<>>)
          ELSE \E s \in Orderings(rows, sort) :
                   LET page == Page(s, offset, limit)
                   IN Respond("read_projects", req, 200,
                              [i \in DOMAIN page |-> ProjectView(page[i])])
       /\ UNCHANGED <<store, media, now, sess, auth>>

\* ---- data_pipeline/import_projects.py ----------------------------------------
\* a CSV row is a record of the raw cell texts ("" for an empty or missing
\* cell); the conversions below are given on the texts the model uses

\* str.strip()
Strip(v) ==
    CASE v = " Borehole A " -> "Borehole A"
      [] v = " 001 " -> "001"
      [] v = " amina " -> "amina"
      [] v = " " -> ""
      [] OTHER -> v

\* str.lower()
Lower(v) ==
    CASE v = "TRUE" -> "true"
      [] v = "Yes" -> "yes"
      [] v = "False" -> "false"
      [] OTHER -> v

\* a conversion returns <<value>>, or <<>> when the code raises

\* datetime.strptime(value, "%Y-%m-%d")
StrpTime(v) ==
    CASE v = "2024-01-15" -> <<"2024-01-15T00:00:00">>
      [] v = "2025-06-30" -> <<"2025-06-30T00:00:00">>
      [] OTHER -> <<>>

parse_date(value) ==
    IF Strip(value) = "" THEN <<None>> ELSE StrpTime(Strip(value))

\* float(value)
Float(v) ==
    CASE v = "0" -> <<"0.0">>
      [] v = "60" -> <<"60.0">>
      [] v = "2000000" -> <<"2000000.0">>
      [] v = "3800000" -> <<"3800000.0">>
      [] OTHER -> <<>>

normalize_category(value) ==
    IF Strip(value) \in ProjectCategory THEN <<Strip(value)>> ELSE <<>>

normalize_status(value) ==
    IF Strip(value) \in ProjectStatus THEN <<Strip(value)>> ELSE <<>>

as_float(value) ==
    IF Strip(value) = "" THEN <<None>> ELSE Float(Strip(value))

as_bool(value) ==
    IF Lower(Strip(value)) \in {"1", "true", "yes", "y"}
    THEN "true" ELSE "false"

\* x or default
OrElse(v, default) == IF v = "" THEN default ELSE v

\* (x or "").strip() or None
StripOrNone(v) == IF Strip(v) = "" THEN None ELSE Strip(v)

\* a lookup in which a null source_doc_ref matches every row
find_existing_wildcard(ps, title, constituency_code, source_doc_ref) ==
    {p \in ps :
        /\ p.title = title
        /\ p.constituency_code = constituency_code
        /\ source_doc_ref # None => p.source_doc_ref = source_doc_ref}

find_existing(ps, title, constituency_code, source_doc_ref) ==
    {p \in ps :
        /\ p.title = title
        /\ p.constituency_code = constituency_code
        /\ IF source_doc_ref # None
           THEN p.source_doc_ref = source_doc_ref
           ELSE p.source_doc_ref = None}

\* the payload dict of one row: <<payload>>, or <<>> when a conversion raises
ImportPayload(row) ==
    LET category == normalize_category(OrElse(row.category, "Other"))
        status == normalize_status(OrElse(row.status, "Planned"))
        budget == Float(OrElse(row.budget, "0"))
        spent == as_float(row.spent)
        progress == as_float(row.progress)
        start_date == parse_date(row.start_date)
        completion_date == parse_date(row.completion_date)
    IN IF \/ category = <<>> \/ status = <<>> \/ budget = <<>>
          \/ spent = <<>> \/ progress = <<>>
          \/ start_date = <<>> \/ completion_date = <<>>
       THEN <<>>
       ELSE <<[title |-> Strip(row.title),
               description |-> StripOrNone(row.description),
               category |-> category[1],
               status |-> status[1],
               budget |-> budget[1],
               spent |-> spent[1],
               progress |-> progress[1],
               constituency_code |-> Strip(row.constituency_code),
               start_date |-> start_date[1],
               completion_date |-> completion_date[1],
               is_mock |-> as_bool(OrElse(row.is_mock, "false")),
               source_name |-> StripOrNone(row.source_name),
               source_url |-> StripOrNone(row.source_url),
               source_doc_ref |-> StripOrNone(row.source_doc_ref)]>>

\* the for loop of import_csv over the rows still to read, in one session:
\* ps is the session's view of the project table, nid the next id.  The
\* result is the set of possible outcomes (find_existing's .first() takes
\* any of several matching rows).
RECURSIVE ImportLoop(_, _, _, _, _)
ImportLoop(rows, ps, nid, created, updated) ==
    IF rows = <<>>
    THEN {[raised |-> FALSE, projects |-> ps, nextId |-> nid,
           created |-> created, updated |-> updated]}
    ELSE LET row == Head(rows)
             title == Strip(row.title)
             constituency_code == Strip(row.constituency_code)
             source_doc_ref == StripOrNone(row.source_doc_ref)
             existing ==
                 find_existing(ps, title, constituency_code, source_doc_ref)
             payload == ImportPayload(row)
         IN IF title = "" \/ constituency_code = ""
            THEN ImportLoop(Tail(rows), ps, nid, created, updated)
            ELSE IF payload = <<>>
            THEN {[raised |-> TRUE, projects |-> ps, nextId |-> nid,
                   created |-> created, updated |-> updated]}
            ELSE IF existing # {}
            THEN UNION {ImportLoop(Tail(rows),
                                   (ps \ {e}) \cup {SetAttrs(e, payload[1])},
                                   nid, created, updated + 1) :
                            e \in existing}
            ELSE ImportLoop(Tail(rows),
                            ps \cup {payload[1] @@ [id |-> nid,
                                                    last_updated |-> now]},
                            nid + 1, created + 1, updated)

\* a session that commits each row as it is read
SessionClosed_committed(stored, pending) == pending

\* leaving `with Session(engine)` by an exception before session.commit():
\* the project table is as stored, the session's pending rows are dropped
SessionClosed(stored, pending) == stored

import_csv(file) ==
    /\ \E out \in ImportLoop(file, projects, nextProjectId, 0, 0) :
           /\ out.nextId <= MaxProjectId + 1
           /\ IF out.raised
              THEN /\ projects' = SessionClosed(projects, out.projects)
                   /\ Respond("import_csv", file, 1, <<>>)
                   /\ UNCHANGED nextProjectId
              ELSE IF CommitOk(constituencies, out.projects, contractors,
                               awards)
              THEN /\ projects' = out.projects
                   /\ nextProjectId' = out.nextId
                   /\ Respond("import_csv", file, 0,
                              <<[created |-> out.created,
                                 updated |-> out.updated]>>)
              ELSE /\ nextProjectId' = out.nextId
                   /\ Respond("import_csv", file, 1, <<>>)
                   /\ UNCHANGED projects
    /\ UNCHANGED <<constituencies, contractors, awards, nextContractorId,
                   nextAwardId, now, sess, auth, media>>

\* the server clock advances
Tick ==
    /\ now < MaxTime
    /\ now' = now + 1
    /\ UNCHANGED <<store, media, resp, sess, auth>>

\* ---- the award binder under sequential requests ----------------------------
AwardConstituencyBodies ==
    {[code |-> "001", name |-> "Kajiado North", county |-> "Kajiado",
      mp_name |-> "Onesmus Ngogoyo Nguro"]}

AwardProjectBodies ==
    {[title |-> "Borehole A", category |-> "Water", budget |-> "2000000",
      constituency_code |-> "001"]}

\* the n-th contractor registered has the n-th of these names (cyclically)
ContractorNames ==
    <<"AquaDrill Services Ltd", "Mavuno Builders Ltd",
      "Nuru Engineering Co.", "Kibo Works & Supplies">>

NextContractorPayload ==
    [name |-> ContractorNames[((nextContractorId - 1) % 4) + 1]]

\* ids that may or may not be stored: one beyond the largest the store gives
AnyProjectId == 1..(MaxProjectId + 1)
AnyContractorId == 1..(MaxContractorId + 1)
AnyAwardId == 1..(MaxAwardId + 1)

AwardCreatePayloads ==
    {[project_id |-> p, contractor_id |-> k, tender_id |-> "NG-CDF/001",
      procurement_method |-> "Open Tender", contract_value |-> "1900000",
      award_date |-> "2024-06-10"] :
        p \in AnyProjectId, k \in AnyContractorId}

AwardUpdatePayloads ==
    {[tender_id |-> "NG-CDF/002", award_date |-> None]}
    \cup
    {[contractor_id |-> k] : k \in {NoId} \cup AnyContractorId}

NextAward ==
    \/ \E body \in AwardConstituencyBodies : create_constituency(body)
    \/ \E body \in AwardProjectBodies : create_project(body)
    \/ create_contractor(NextContractorPayload)
    \/ \E payload \in AwardCreatePayloads : create_award(payload)
    \/ \E id \in AnyAwardId : \E data \in AwardUpdatePayloads :
           update_award(id, data)
    \/ \E id \in AnyAwardId : delete_award(id)

SpecAward == Init /\ [][NextAward]_vars

\* ---- properties of the award binder ----------------------------------------
ViewsOf(project_id) ==
    {ProjectView(row) : row \in JoinRows(GetProject(project_id))}

AwardOfId(as, id) == CHOOSE a \in as : a.id = id

\* C1: under sequential create_award, update_award and delete_award calls no
\* two stored awards have the same project_id.
C1_OneAwardPerProject ==
    \A a1 \in awards : \A a2 \in awards :
        a1.project_id = a2.project_id => a1 = a2

\* two awards are stored and a further create_award for an awarded project
\* has just been answered
C1_Witness ==
    /\ Cardinality(awards) = 2
    /\ resp.op = "create_award"
    /\ resp.status = 400

\* C2: create_award for a project that already has an award answers 400
\* whatever the contractor, inserts nothing, leaves the existing award as it
\* is, and the project's view is the same as before.
C2_DuplicateAwardRejected ==
    [][(/\ resp'.op = "create_award"
        /\ resp' # resp
        /\ \E a \in awards : a.project_id = resp'.req.project_id)
       => (/\ resp'.status = 400
           /\ awards' = awards
           /\ nextAwardId' = nextAwardId
           /\ \A id \in AnyProjectId :
                  id = resp'.req.project_id => ViewsOf(id)' = ViewsOf(id))
      ]_vars

\* a second award for an awarded project, naming another contractor that
\* exists, was rejected and the view shows the first award's contractor
C2_Witness ==
    /\ resp.op = "create_award"
    /\ resp.status = 400
    /\ GetContractor(resp.req.contractor_id) # {}
    /\ \E a \in awards :
           /\ a.project_id = resp.req.project_id
           /\ a.contractor_id # resp.req.contractor_id
           /\ \E k \in contractors :
                  /\ k.id = a.contractor_id
                  /\ \A v \in ViewsOf(a.project_id) :
                         v.contractor_name = k.name
           /\ ViewsOf(a.project_id) # {}

\* C4: create_award succeeds only when project_id names a stored Project and
\* contractor_id a stored Contractor; otherwise it fails and stores nothing.
C4_AwardReferencesExist ==
    [][(resp'.op = "create_award" /\ resp' # resp)
       => (/\ resp'.status = 200
              => (/\ GetProject(resp'.req.project_id) # {}
                  /\ GetContractor(resp'.req.contractor_id) # {})
           /\ (\/ GetProject(resp'.req.project_id) = {}
               \/ GetContractor(resp'.req.contractor_id) = {})
              => (resp'.status # 200 /\ awards' = awards))
      ]_vars

\* a create_award naming an unknown project or contractor has failed
C4_Witness ==
    /\ resp.op = "create_award"
    /\ resp.status = 500
    /\ \/ GetProject(resp.req.project_id) = {}
       \/ GetContractor(resp.req.contractor_id) = {}
    /\ projects # {}
    /\ contractors # {}

\* the frame of update_award: every other award, and in the updated award
\* every field absent from the request (project_id among them), is unchanged
UpdateAwardFrame(id, data) ==
    /\ {a \in awards' : a.id # id} = {a \in awards : a.id # id}
    /\ Cardinality({a \in awards' : a.id = id}) = 1
    /\ \A f \in DOMAIN AwardOfId(awards, id) :
           f \notin DOMAIN data
               => AwardOfId(awards', id)[f] = AwardOfId(awards, id)[f]
    /\ AwardOfId(awards', id).project_id = AwardOfId(awards, id).project_id
    /\ <<constituencies, projects, contractors>>'
           = <<constituencies, projects, contractors>>

\* C5 as stated: update_award of a stored award sets every field present in
\* the request and nothing else; of an unknown award_id it answers 404 and
\* changes nothing.
C5_Original ==
    [][(resp'.op = "update_award" /\ resp' # resp)
       => IF GetAward(resp'.req.award_id) = {}
          THEN resp'.status = 404 /\ awards' = awards
          ELSE /\ UpdateAwardFrame(resp'.req.award_id, resp'.req.data)
               /\ \A f \in DOMAIN resp'.req.data :
                      AwardOfId(awards', resp'.req.award_id)[f]
                          = resp'.req.data[f]
      ]_vars

\* C5 amended: as C5, except that an update whose contractor_id is null or
\* names no stored Contractor fails (500) and changes nothing.
C5_PartialUpdate ==
    [][(resp'.op = "update_award" /\ resp' # resp)
       => IF GetAward(resp'.req.award_id) = {}
          THEN resp'.status = 404 /\ awards' = awards
          ELSE IF /\ Has(resp'.req.data, "contractor_id")
                  /\ GetContractor(resp'.req.data.contractor_id) = {}
          THEN resp'.status = 500 /\ awards' = awards
          ELSE /\ resp'.status = 200
               /\ UpdateAwardFrame(resp'.req.award_id, resp'.req.data)
               /\ \A f \in DOMAIN resp'.req.data :
                      AwardOfId(awards', resp'.req.award_id)[f]
                          = resp'.req.data[f]
      ]_vars

\* an update that set tender_id and award_date has succeeded on an award
\* that keeps its other details, while another award is stored
C5_Witness ==
    /\ resp.op = "update_award"
    /\ resp.status = 200
    /\ Has(resp.req.data, "tender_id")
    /\ Cardinality(awards) = 2
    /\ \E a \in awards :
           /\ a.id = resp.req.award_id
           /\ a.tender_id = resp.req.data.tender_id
           /\ a.award_date = None
           /\ a.contract_value # None

\* C6: delete_award of an unknown id answers 404 and changes nothing;
\* otherwise it removes exactly that award and nothing else.
C6_DeleteAward ==
    [][(resp'.op = "delete_award" /\ resp' # resp)
       => /\ IF GetAward(resp'.req.award_id) = {}
             THEN resp'.status = 404 /\ awards' = awards
             ELSE /\ resp'.status = 200
                  /\ awards' = {a \in awards : a.id # resp'.req.award_id}
          /\ <<constituencies, projects, contractors>>'
                 = <<constituencies, projects, contractors>>
      ]_vars

\* one of two stored awards has been deleted and the other one remains
C6_Witness ==
    /\ resp.op = "delete_award"
    /\ resp.status = 200
    /\ Cardinality(awards) = 1
    /\ Cardinality(projects) = 2
    /\ \A a \in awards : a.id # resp.req.award_id

\* ---- create_award under concurrent requests ---------------------------------
\* lines 57-61 of create_award in request r: the existence check, made in
\* r's own session before anything is written
create_award_check(r, payload) ==
    /\ sess[r].pc = "idle"
    /\ IF ExistingAward(payload.project_id) # {}
       THEN /\ Respond("create_award", payload, 400, <<>>)
            /\ UNCHANGED sess
       ELSE /\ sess' = [sess EXCEPT ![r] =
                           [pc |-> "checked", payload |-> payload]]
            /\ UNCHANGED resp
    /\ UNCHANGED <<store, media, now, auth>>

\* lines 63-67 of create_award in request r: the insert and its commit
create_award_commit(r) ==
    /\ sess[r].pc = "checked"
    /\ LET payload == sess[r].payload
           award == NewAward(payload, nextAwardId)
       IN IF CommitOk(constituencies, projects, contractors,
                      awards \cup {award})
          THEN /\ nextAwardId <= MaxAwardId
               /\ awards' = awards \cup {award}
               /\ nextAwardId' = nextAwardId + 1
               /\ Respond("create_award", payload, 200, <<award>>)
          ELSE /\ Respond("create_award", payload, 500, <<>>)
               /\ UNCHANGED <<awards, nextAwardId>>
    /\ sess' = [sess EXCEPT ![r] = [pc |-> "idle"]]
    /\ UNCHANGED <<constituencies, projects, contractors, nextProjectId,
                   nextContractorId, now, auth, media>>

ConcurrentPayloads ==
    {[project_id |-> p, contractor_id |-> k] :
        p \in ProjectIds, k \in ContractorIds}

NextConc ==
    \/ \E body \in AwardConstituencyBodies : create_constituency(body)
    \/ \E body \in AwardProjectBodies : create_project(body)
    \/ create_contractor(NextContractorPayload)
    \/ \E r \in Requests : \E payload \in ConcurrentPayloads :
           create_award_check(r, payload)
    \/ \E r \in Requests : create_award_commit(r)

SpecConc == Init /\ [][NextConc]_vars

\* C3: when two create_award calls for one project interleave their check
\* and commit steps, at most one award is stored for the project: a call
\* whose commit finds the project already awarded is answered 400 and stores
\* nothing.
C3_ConcurrentCreateSerialized ==
    /\ \A a1 \in awards : \A a2 \in awards :
           a1.project_id = a2.project_id => a1 = a2
    /\ (resp.op = "create_award" /\ resp.status = 200)
           => Cardinality(ExistingAward(resp.req.project_id)) = 1

\* ---- the project view -------------------------------------------------------
ViewConstituencyBodies ==
    {[code |-> "001", name |-> "Kajiado North", county |-> "Kajiado",
      mp_name |-> "Onesmus Ngogoyo Nguro"],
     [code |-> "002", name |-> "Yatta", county |-> "Machakos",
      mp_name |-> "Robert Basil Ngui"]}

\* the n-th project created lies in constituency 001 or 002 alternately
NextViewProjectBody ==
    [title |-> "Borehole A", category |-> "Water", budget |-> "2000000",
     constituency_code |-> IF nextProjectId % 2 = 1 THEN "001" ELSE "002"]

\* a PUT that replaces the MP of constituency 001
ViewConstituencyUpdate ==
    [code |-> "001", name |-> "Kajiado North", county |-> "Kajiado",
     mp_name |-> "Kakai Leshore"]

NextView ==
    \/ \E body \in ViewConstituencyBodies : create_constituency(body)
    \/ update_constituency("001", ViewConstituencyUpdate)
    \/ \E id \in AnyAwardId : delete_award(id)
    \/ create_project(NextViewProjectBody)
    \/ create_contractor(NextContractorPayload)
    \/ \E payload \in AwardCreatePayloads : create_award(payload)
    \/ \E id \in AnyProjectId : read_project(id)

SpecView == Init /\ [][NextView]_vars

ConstituencyOf(p) ==
    CHOOSE c \in constituencies : c.code = p.constituency_code

\* C7: get_project of a stored project returns one view; its constituency
\* fields are those of the project's Constituency row, its award fields are
\* those of the project's award or all null without one, and contractor_name
\* is the award's contractor's name, or null without award or contractor row.
C7_ProjectView ==
    (resp.op = "read_project" /\ GetProject(resp.req.project_id) # {})
    => /\ resp.status = 200
       /\ Len(resp.body) = 1
       /\ \A p \in GetProject(resp.req.project_id) :
          LET v == resp.body[1]
              as == {a \in awards : a.project_id = p.id}
          IN /\ \A f \in DOMAIN p : v[f] = p[f]
             /\ v.constituency_name = ConstituencyOf(p).name
             /\ v.county = ConstituencyOf(p).county
             /\ v.mp_name = ConstituencyOf(p).mp_name
             /\ as = {}
                => /\ v.tender_id = None
                   /\ v.procurement_method = None
                   /\ v.contract_value = None
                   /\ v.award_date = None
                   /\ v.contractor_name = None
             /\ \A a \in as :
                   /\ v.tender_id = a.tender_id
                   /\ v.procurement_method = a.procurement_method
                   /\ v.contract_value = a.contract_value
                   /\ v.award_date = a.award_date
                   /\ \A k \in contractors :
                          k.id = a.contractor_id => v.contractor_name = k.name
                   /\ (\A k \in contractors : k.id # a.contractor_id)
                          => v.contractor_name = None

\* the view of an awarded project in constituency 002 has been returned
\* while a project without award is stored in constituency 001
C7_Witness ==
    /\ resp.op = "read_project"
    /\ resp.status = 200
    /\ resp.body[1].constituency_name = "Yatta"
    /\ resp.body[1].tender_id = "NG-CDF/001"
    /\ resp.body[1].contractor_name = "Mavuno Builders Ltd"
    /\ \E p \in projects :
           /\ p.constituency_code = "001"
           /\ ExistingAward(p.id) = {}

\* ---- projects, constituencies and the import --------------------------------
\* a PUT on a constituency whose body carries the other code
ProjectConstituencyUpdates ==
    {[code |-> "002", name |-> "Kajiado North", county |-> "Kajiado",
      mp_name |-> "Onesmus Ngogoyo Nguro"]}

\* constituency 003 is never created
ProjectBodies ==
    {[title |-> "Borehole A", category |-> "Water", budget |-> "2000000.0",
      constituency_code |-> c] : c \in {"001", "002", "003"}}
    \cup
    {[title |-> "Borehole A", category |-> "Water", budget |-> "2000000.0",
      constituency_code |-> "001", status |-> "Ongoing"],
     [title |-> "Borehole A", category |-> "Boreholes",
      budget |-> "2000000.0", constituency_code |-> "003"]}

CsvRow(title, constituency_code) ==
    [title |-> title, description |-> "", category |-> "Water",
     status |-> "", budget |-> "2000000", spent |-> "", progress |-> "",
     constituency_code |-> constituency_code, start_date |-> "2024-01-15",
     completion_date |-> "", is_mock |-> "", source_name |-> "",
     source_url |-> "", source_doc_ref |-> ""]

ProjectCsvRows ==
    {CsvRow("Borehole A", "001"), CsvRow("Borehole B", "003")}

\* the number of rows of an imported file
MaxRows == 2

CsvFiles(rows) == UNION {[1..n -> rows] : n \in 1..MaxRows}

NextProject ==
    \/ \E body \in ViewConstituencyBodies : create_constituency(body)
    \/ \E body \in ProjectConstituencyUpdates :
           update_constituency("001", body)
    \/ \E code \in {"001", "002", "003"} : delete_constituency(code)
    \/ \E body \in ProjectBodies : create_project(body)
    \/ \E id \in AnyProjectId : \E body \in ProjectBodies :
           update_project(id, body)
    \/ \E id \in AnyProjectId : delete_project(id)
    \/ \E file \in CsvFiles(ProjectCsvRows) : import_csv(file)
    \/ \E id \in AnyProjectId : read_project(id)
    \/ read_projects(None, None, None, DefaultSort, 0, DefaultLimit)

SpecProject == Init /\ [][NextProject]_vars

\* C8: create_project of a well-formed body whose constituency_code names no
\* stored Constituency answers 404 and stores nothing; update_project of a
\* stored project that changes constituency_code to such a code answers 404
\* and leaves the project table as it is.
C8_ConstituencyMustResolve ==
    [][/\ (/\ resp'.op = "create_project"
           /\ resp' # resp
           /\ ValidProjectBody(resp'.req)
           /\ GetConstituency(resp'.req.constituency_code) = {})
          => (resp'.status = 404 /\ projects' = projects)
       /\ (/\ resp'.op = "update_project"
           /\ resp' # resp
           /\ ValidProjectBody(resp'.req.body)
           /\ GetConstituency(resp'.req.body.constituency_code) = {}
           /\ \E p \in projects :
                  /\ p.id = resp'.req.project_id
                  /\ p.constituency_code
                         # resp'.req.body.constituency_code)
          => (resp'.status = 404 /\ projects' = projects)
      ]_vars

\* an update of a stored project to the unknown constituency 003 has been
\* answered 404
C8_Witness ==
    /\ resp.op = "update_project"
    /\ resp.status = 404
    /\ resp.req.body.constituency_code = "003"
    /\ \E p \in projects :
           /\ p.id = resp.req.project_id
           /\ p.constituency_code # "003"

\* C9: after any sequence of project, constituency and import operations
\* every stored project's constituency_code names a stored Constituency, the
\* unfiltered list holds every stored project and get_project of a stored
\* project is not answered 404.
C9_ProjectsResolve ==
    /\ \A p \in projects :
           \E c \in constituencies : c.code = p.constituency_code
    /\ (resp.op = "read_project" /\ GetProject(resp.req.project_id) # {})
           => resp.status = 200
    /\ resp.op = "read_projects"
           => {resp.body[i].id : i \in DOMAIN resp.body}
                  = {p.id : p \in projects}

\* the delete of a constituency that a stored project references has failed
C9_Witness ==
    /\ resp.op = "delete_constituency"
    /\ resp.status = 500
    /\ \E p \in projects : p.constituency_code = resp.req.code
    /\ \E c \in constituencies : c.code = resp.req.code

\* ---- the filters of the project list ------------------------------------------
ListProjectBodies ==
    {[title |-> "Borehole A", category |-> "Water", budget |-> "2000000.0",
      constituency_code |-> "001"],
     [title |-> "Kitengela Dispensary Upgrade", category |-> "Health",
      status |-> "Ongoing", budget |-> "3800000.0",
      constituency_code |-> "001"],
     [title |-> "Borehole B", category |-> "Water", status |-> "Ongoing",
      budget |-> "2000000.0", constituency_code |-> "002"]}

\* None is an omitted query parameter, "" one given without a value
ListConstituencyFilters == {None, "", "001", "002"}
ListCategoryFilters == {None, "Water", "Health", "Boreholes"}
ListStatusFilters == {None, "Planned", "Ongoing"}

NextList ==
    \/ \E body \in ViewConstituencyBodies : create_constituency(body)
    \/ \E body \in ListProjectBodies : create_project(body)
    \/ \E constituency_code \in ListConstituencyFilters :
       \E category \in ListCategoryFilters :
       \E status \in ListStatusFilters :
           read_projects(constituency_code, category, status, DefaultSort,
                         0, DefaultLimit)

SpecList == Init /\ [][NextList]_vars

\* the ids of the projects a list response holds, and whether it holds each
\* of them once
ListedIds == {resp.body[i].id : i \in DOMAIN resp.body}

ListedOnce ==
    \A i \in DOMAIN resp.body : \A j \in DOMAIN resp.body :
        resp.body[i].id = resp.body[j].id => i = j

\* the list request was accepted and its page holds every matching row
WholeList ==
    /\ resp.op = "read_projects"
    /\ resp.status = 200
    /\ resp.req.offset = 0
    /\ resp.req.limit >= Cardinality(projects)

\* C10 as stated: the list holds exactly the projects that equal every
\* supplied filter; only an omitted filter constrains nothing.
C10_Original ==
    WholeList
    => /\ ListedOnce
       /\ ListedIds =
            {p.id : p \in
                {p \in projects :
                    /\ resp.req.constituency_code # None
                       => p.constituency_code = resp.req.constituency_code
                    /\ resp.req.category # None
                       => p.category = resp.req.category
                    /\ resp.req.status # None
                       => p.status = resp.req.status}}

\* C10 amended: the list holds exactly the projects that equal every
\* supplied non-empty filter; a filter that is omitted, or a
\* constituency_code given as the empty string, constrains nothing.
C10_Filters ==
    WholeList
    => /\ ListedOnce
       /\ ListedIds =
            {p.id : p \in
                {p \in projects :
                    /\ resp.req.constituency_code \notin {None, ""}
                       => p.constituency_code = resp.req.constituency_code
                    /\ resp.req.category # None
                       => p.category = resp.req.category
                    /\ resp.req.status # None
                       => p.status = resp.req.status}}

\* a list filtered by constituency and status has returned one of two
\* stored projects of that constituency
C10_Witness ==
    /\ WholeList
    /\ resp.req.constituency_code = "001"
    /\ resp.req.category = None
    /\ resp.req.status = "Ongoing"
    /\ Len(resp.body) = 1
    /\ Cardinality({p \in projects : p.constituency_code = "001"}) = 2

\* ---- the order of the project list ----------------------------------------------
SortKeys ==
    {"id_asc", "id_desc", "last_updated_asc", "last_updated_desc",
     "title_asc", "title_desc"}

\* None is an omitted sort parameter; the last two are not sort keys
SortStrings == SortKeys \cup {None, "", "budget_desc"}

SortProjectBodies ==
    {[title |-> t, category |-> "Water", budget |-> "2000000.0",
      constituency_code |-> "001"] :
        t \in {"Borehole A", "Kitengela Dispensary Upgrade"}}

NextSort ==
    \/ \E body \in AwardConstituencyBodies : create_constituency(body)
    \/ \E body \in SortProjectBodies : create_project(body)
    \/ \E id \in ProjectIds : \E body \in SortProjectBodies :
           update_project(id, body)
    \/ Tick
    \/ \E sort \in SortStrings :
           read_projects(None, None, None, sort, 0, DefaultLimit)

SpecSort == Init /\ [][NextSort]_vars

\* C11: the page of an accepted list request is ordered by the field and
\* direction its sort key names (id, last_updated or title, ascending or
\* descending); a missing or unrecognized sort string is answered without
\* error in the last_updated_desc ordering.
C11_SortOrder ==
    (/\ resp.op = "read_projects"
     /\ ValidListQuery(resp.req.category, resp.req.status, resp.req.offset,
                       resp.req.limit))
    => /\ resp.status = 200
       /\ \A i \in DOMAIN resp.body : \A j \in DOMAIN resp.body :
              i < j =>
                 LET a == resp.body[i]
                     b == resp.body[j]
                     sort == resp.req.sort
                 IN /\ sort = "id_asc" => a.id <= b.id
                    /\ sort = "id_desc" => a.id >= b.id
                    /\ sort = "last_updated_asc"
                           => a.last_updated <= b.last_updated
                    /\ sort = "title_asc"
                           => TitleRank(a.title) <= TitleRank(b.title)
                    /\ sort = "title_desc"
                           => TitleRank(a.title) >= TitleRank(b.title)
                    /\ sort \notin SortKeys \ {"last_updated_desc"}
                           => a.last_updated >= b.last_updated

\* a list sorted by title_asc has returned two projects in the order of
\* their titles, which is neither the order of their ids nor the default
\* order of their last_updated
C11_Witness ==
    /\ resp.op = "read_projects"
    /\ resp.status = 200
    /\ resp.req.sort = "title_asc"
    /\ Len(resp.body) = 2
    /\ TitleRank(resp.body[1].title) < TitleRank(resp.body[2].title)
    /\ resp.body[1].id > resp.body[2].id
    /\ resp.body[1].last_updated < resp.body[2].last_updated

\* ---- the pages of the project list ------------------------------------------------
\* offsets from below zero to beyond the number of stored projects
PageOffsets == (0 - 1)..(MaxProjectId + 1)

\* limits around both ends of [1, 100]
PageLimits == {0, 1, 2, MaxLimit, MaxLimit + 1}

NextPage ==
    \/ \E body \in ViewConstituencyBodies : create_constituency(body)
    \/ \E body \in ListProjectBodies : create_project(body)
    \/ \E constituency_code \in {None, "002"} :
       \E offset \in PageOffsets : \E limit \in PageLimits :
           read_projects(constituency_code, None, None, DefaultSort, offset,
                         limit)

SpecPage == Init /\ [][NextPage]_vars

\* the number of stored projects that match the request's filters
MatchingCount ==
    Cardinality({p \in projects :
                    /\ resp.req.constituency_code # None
                       => p.constituency_code = resp.req.constituency_code
                    /\ resp.req.category # None
                       => p.category = resp.req.category
                    /\ resp.req.status # None
                       => p.status = resp.req.status})

\* C12: a list request whose limit is outside [1, 100] or whose offset is
\* negative is rejected (422); an accepted request returns at most limit
\* rows, and none, without error, when offset is at or beyond the number of
\* matching projects.
C12_Pagination ==
    resp.op = "read_projects"
    => IF \/ resp.req.limit < 1
          \/ resp.req.limit > 100
          \/ resp.req.offset < 0
       THEN resp.status = 422 /\ resp.body = <<>>
       ELSE /\ resp.status = 200
            /\ Len(resp.body) <= resp.req.limit
            /\ resp.req.offset >= MatchingCount => resp.body = <<>>
            /\ resp.req.offset < MatchingCount => resp.body # <<>>

\* a list with limit 1 and offset 1 has returned one of two matching
\* projects
C12_Witness ==
    /\ resp.op = "read_projects"
    /\ resp.status = 200
    /\ resp.req.limit = 1
    /\ resp.req.offset = 1
    /\ Len(resp.body) = 1
    /\ MatchingCount = 2

\* ---- the last_updated stamp ---------------------------------------------------------
\* a timestamp a client sends, earlier than every reading of the server clock
ClientTime == 0

\* bodies with and without a last_updated of the client's
StampProjectBodies ==
    {[title |-> "Borehole A", category |-> "Water", budget |-> "2000000.0",
      constituency_code |-> "001"],
     [title |-> "Borehole A", category |-> "Water", budget |-> "3800000.0",
      constituency_code |-> "001", last_updated |-> ClientTime]}

\* two records with one natural key and different budgets
StampCsvRows ==
    {CsvRow("Borehole A", "001"),
     [CsvRow("Borehole A", "001") EXCEPT !.budget = "3800000"]}

NextStamp ==
    \/ \E body \in AwardConstituencyBodies : create_constituency(body)
    \/ \E body \in StampProjectBodies : create_project(body)
    \/ \E id \in ProjectIds : \E body \in StampProjectBodies :
           update_project(id, body)
    \/ \E file \in CsvFiles(StampCsvRows) : import_csv(file)
    \/ Tick

SpecStamp == Init /\ [][NextStamp]_vars

\* C13: every project row that create_project, update_project or an import
\* writes (inserts or changes) carries the server's time of that operation
\* as its last_updated, whatever last_updated the client sent.
C13_LastUpdatedServerSet ==
    [][(/\ resp' # resp
        /\ resp'.op \in {"create_project", "update_project", "import_csv"})
       => \A p \in projects' : p \notin projects => p.last_updated = now
      ]_vars

\* the part of C13 that create_project and update_project keep
C13_HandlersStamp ==
    [][(/\ resp' # resp
        /\ resp'.op \in {"create_project", "update_project"})
       => \A p \in projects' : p \notin projects => p.last_updated = now
      ]_vars

\* ---- the natural-key upsert of the import ---------------------------------------------
\* a project the API stores with the natural key of the imported records
ImportProjectBodies ==
    {[title |-> "Borehole A", category |-> "Water", budget |-> "2000000.0",
      constituency_code |-> "001"]}

\* records of one natural key with two budgets, of another constituency (and
\* a padded title), and of another source_doc_ref
ImportCsvRows ==
    {CsvRow("Borehole A", "001"),
     [CsvRow("Borehole A", "001") EXCEPT !.budget = "3800000"],
     CsvRow(" Borehole A ", "002"),
     [CsvRow("Borehole A", "001") EXCEPT
         !.source_doc_ref = "NG-CDF/2024/017"]}

NextImport ==
    \/ \E body \in ViewConstituencyBodies : create_constituency(body)
    \/ \E body \in ImportProjectBodies : create_project(body)
    \/ \E file \in CsvFiles(ImportCsvRows) : import_csv(file)

SpecImport == Init /\ [][NextImport]_vars

\* the natural key of a stored project and of a record of a file
KeyOf(p) == <<p.title, p.constituency_code, p.source_doc_ref>>

RecordKey(row) ==
    <<Strip(row.title), Strip(row.constituency_code),
      StripOrNone(row.source_doc_ref)>>

RowsOfKey(ps, key) == {p \in ps : KeyOf(p) = key}

\* an import has just returned (it did not raise)
ImportReturned == resp.op = "import_csv" /\ resp.status = 0

\* record j of the file is the second of two upserted records with one key:
\* an earlier record of the file, or a record of the import run just
\* before, has its key, and no later record of the file has
SecondOfKey(prev, file, j) ==
    /\ \A k \in DOMAIN file : k > j => RecordKey(file[k]) # RecordKey(file[j])
    /\ \/ \E i \in DOMAIN file :
              i < j /\ RecordKey(file[i]) = RecordKey(file[j])
       \/ /\ prev.op = "import_csv"
          /\ prev.status = 0
          /\ \E i \in DOMAIN prev.req :
                 RecordKey(prev.req[i]) = RecordKey(file[j])

\* exactly one stored row has record's key and holds record's imported fields
OneRowHolds(ps, record) ==
    /\ Cardinality(RowsOfKey(ps, RecordKey(record))) = 1
    /\ \A p \in RowsOfKey(ps, RecordKey(record)) :
           \A f \in DOMAIN ImportPayload(record)[1] :
               p[f] = ImportPayload(record)[1][f]

\* C14: after two records with one natural key have been upserted, in one
\* file or in two import runs, exactly one stored row has that key and its
\* imported fields hold the second record's values.
C14_UpsertTwice ==
    [][(ImportReturned' /\ resp' # resp)
       => \A j \in DOMAIN resp'.req :
              SecondOfKey(resp, resp'.req, j)
                  => OneRowHolds(projects', resp'.req[j])
      ]_vars

\* C14 whenever at most one stored row has the key before the import
C14_UpsertTwiceFromOne ==
    [][(ImportReturned' /\ resp' # resp)
       => \A j \in DOMAIN resp'.req :
              (/\ SecondOfKey(resp, resp'.req, j)
               /\ Cardinality(RowsOfKey(projects, RecordKey(resp'.req[j])))
                      <= 1)
                  => OneRowHolds(projects', resp'.req[j])
      ]_vars

\* record j of the file matches a row the import's session sees: a row
\* stored before the import, or one an earlier record of the file created
MatchedRecord(ps, file, j) ==
    \/ RowsOfKey(ps, RecordKey(file[j])) # {}
    \/ \E i \in DOMAIN file :
           i < j /\ RecordKey(file[i]) = RecordKey(file[j])

\* C15: a record matches a stored project iff title, constituency_code and
\* source_doc_ref are equal, null equal to null only.  An import that
\* returns reports each matching record as Updated and each other record as
\* Created, adds one row per Created record and none per Updated one, and
\* leaves a row for every record's key beside the rows of every other key.
C15_NaturalKeyMatch ==
    [][(ImportReturned' /\ resp' # resp)
       => LET file == resp'.req
              matched == {j \in DOMAIN file : MatchedRecord(projects, file, j)}
              others == (DOMAIN file) \ matched
          IN /\ resp'.body[1].updated = Cardinality(matched)
             /\ resp'.body[1].created = Cardinality(others)
             /\ Cardinality(projects')
                    = Cardinality(projects) + Cardinality(others)
             /\ \A j \in DOMAIN file :
                    RowsOfKey(projects', RecordKey(file[j])) # {}
             /\ \A p \in projects :
                    (\A j \in DOMAIN file : KeyOf(p) # RecordKey(file[j]))
                        => p \in projects'
      ]_vars

\* a record without source_doc_ref was reported Created although a stored
\* row has its title and constituency with a source_doc_ref: both rows are
\* stored
C15_Witness ==
    /\ ImportReturned
    /\ Len(resp.req) = 1
    /\ resp.body[1].created = 1
    /\ RecordKey(resp.req[1])[3] = None
    /\ \E p \in projects :
           /\ p.title = RecordKey(resp.req[1])[1]
           /\ p.constituency_code = RecordKey(resp.req[1])[2]
           /\ p.source_doc_ref # None
    /\ Cardinality(RowsOfKey(projects, RecordKey(resp.req[1]))) = 1
    /\ Cardinality(projects) = 2

\* ---- a file with records that fail field validation ------------------------------------
\* a valid record of each constituency and records with an invalid category,
\* an invalid status, an unparseable date and a non-numeric budget
BatchCsvRows ==
    {CsvRow("Borehole A", "001"),
     CsvRow("Borehole B", "002"),
     [CsvRow("Borehole A", "001") EXCEPT !.category = "Boreholes"],
     [CsvRow("Borehole A", "001") EXCEPT !.status = "Stalled"],
     [CsvRow("Borehole A", "001") EXCEPT !.start_date = "15/01/2024"],
     [CsvRow("Borehole A", "001") EXCEPT !.budget = "2m"]}

NextBatch ==
    \/ \E body \in ViewConstituencyBodies : create_constituency(body)
    \/ \E file \in CsvFiles(BatchCsvRows) : import_csv(file)
    \/ \E id \in AnyProjectId : read_project(id)

SpecBatch == Init /\ [][NextBatch]_vars

\* record passes field validation and names a stored constituency
ValidRecord(record) ==
    /\ ImportPayload(record) # <<>>
    /\ RecordKey(record)[1] # ""
    /\ GetConstituency(RecordKey(record)[2]) # {}

\* C16: when a file holds a record that fails field validation, the import
\* goes on: every valid record after it is created or updated and persisted
\* (a stored row has its key and holds its imported fields).
C16_FailureIsolation ==
    [][(resp'.op = "import_csv" /\ resp' # resp)
       => \A i \in DOMAIN resp'.req : \A j \in DOMAIN resp'.req :
              (/\ i < j
               /\ ImportPayload(resp'.req[i]) = <<>>
               /\ ValidRecord(resp'.req[j])
               /\ \A k \in DOMAIN resp'.req :
                      k > j => RecordKey(resp'.req[k])
                                   # RecordKey(resp'.req[j]))
                  => \E p \in RowsOfKey(projects', RecordKey(resp'.req[j])) :
                         \A f \in DOMAIN ImportPayload(resp'.req[j])[1] :
                             p[f] = ImportPayload(resp'.req[j])[1][f]
      ]_vars

\* ---- models/user.py -------------------------------------------------------------------
UserRole == {"admin", "moderator", "viewer"}

UserStatus == {"active", "disabled"}

\* _ph.hash(password): the argon2 digest of a password
Hash(password) == <<"$argon2id$", password>>

\* every password verifies against a stored hash
verify_password_any(user, password) == TRUE

\* User.verify_password: _ph.verify(self.password_hash, password), False
\* when it raises
verify_password(user, password) == user.password_hash = Hash(password)

\* the fields of a User the handlers return (never password_hash)
UserInfo(u) ==
    [f \in {"id", "username", "full_name", "email", "role", "status",
            "created_at", "last_login"} |-> u[f]]

GetUser(id) == {u \in users : u.id = id}

\* select(User).where(User.username == username)
UserNamed(username) == {u \in users : u.username = username}

\* ---- core/auth.py ---------------------------------------------------------------------
SECRET_KEY == "SECRET_KEY"

\* ACCESS_TOKEN_EXPIRE_MINUTES in steps of the clock: a step of the clock
\* is longer than the lifetime of a token
TokenLifetime == 0

\* jwt.encode(claims, key): the claims under a signature made with key
encode(claims, key) == claims @@ [key |-> key]

\* jwt.decode(token, key): <<claims>>, or <<>> when it raises JWTError (bad
\* signature, or exp in the past)
decode(token, key) ==
    IF token.key # key THEN <<>>
    ELSE IF Has(token, "exp") /\ token.exp < now THEN <<>>
    ELSE <<token>>

create_access_token(data) ==
    encode([exp |-> now + TokenLifetime] @@ data, SECRET_KEY)

\* a guard that lets disabled accounts through
get_current_user_unblocked(token) ==
    LET payload == decode(token, SECRET_KEY)
    IN IF payload = <<>> THEN {[status |-> 401, user |-> <<>>]}
       ELSE IF ~Has(payload[1], "sub") \/ payload[1].sub \in {None, ""}
       THEN {[status |-> 401, user |-> <<>>]}
       ELSE IF UserNamed(payload[1].sub) = {}
       THEN {[status |-> 401, user |-> <<>>]}
       ELSE {[status |-> 200, user |-> <<u>>] : u \in UserNamed(payload[1].sub)}

\* the outcomes of the dependency: status 200 with the user, or the status
\* of the HTTPException it raises
get_current_user(token) ==
    LET payload == decode(token, SECRET_KEY)
    IN IF payload = <<>> THEN {[status |-> 401, user |-> <<>>]}
       ELSE IF ~Has(payload[1], "sub") \/ payload[1].sub \in {None, ""}
       THEN {[status |-> 401, user |-> <<>>]}
       ELSE IF UserNamed(payload[1].sub) = {}
       THEN {[status |-> 401, user |-> <<>>]}
       ELSE {IF u.status = "disabled"
             THEN [status |-> 403, user |-> <<>>]
             ELSE [status |-> 200, user |-> <<u>>] :
                 u \in UserNamed(payload[1].sub)}

\* a guard that admits every role
require_admin_any(token) == get_current_user(token)

require_admin(token) ==
    {IF g.status = 200 /\ g.user[1].role # "admin"
     THEN [status |-> 403, user |-> <<>>]
     ELSE g : g \in get_current_user(token)}

\* ---- scripts/create_admin.py ----------------------------------------------------------
create_admin ==
    /\ IF UserNamed("admin") # {}
       THEN /\ Respond("create_admin", <<>>, 0, <<>>)
            /\ UNCHANGED <<users, nextUserId>>
       ELSE /\ nextUserId <= MaxUserId
            /\ users' = users \cup
                   {[id |-> nextUserId, username |-> "admin",
                     password_hash |-> Hash("cdf2025"),
                     full_name |-> "System Administrator",
                     email |-> "admin@cdftracker.local", role |-> "admin",
                     status |-> "active", created_at |-> now,
                     last_login |-> NoTime]}
            /\ nextUserId' = nextUserId + 1
            /\ Respond("create_admin", <<>>, 0, <<>>)
    /\ UNCHANGED <<store, media, now, sess, tokens>>

\* ---- auth_router.py -------------------------------------------------------------------
login(username, password) ==
    LET req == [username |-> username, password |-> password]
        found == UserNamed(username)
    IN /\ IF found = {}
          THEN /\ Respond("login", req, 401, <<>>)
               /\ UNCHANGED <<users, tokens>>
          ELSE \E user \in found :
                  IF ~verify_password(user, password)
                  THEN /\ Respond("login", req, 401, <<>>)
                       /\ UNCHANGED <<users, tokens>>
                  ELSE LET access_token ==
                               create_access_token([sub |-> user.username])
                       IN /\ users' = (users \ {user}) \cup
                                 {[user EXCEPT !.last_login = now]}
                          /\ tokens' = tokens \cup {access_token}
                          /\ Respond("login", req, 200,
                                     <<[access_token |-> access_token,
                                        token_type |-> "bearer"]>>)
       /\ UNCHANGED <<store, media, now, sess, nextUserId>>

me(token) ==
    /\ \E g \in get_current_user(token) :
           Respond("me", [token |-> token], g.status,
                   IF g.status = 200 THEN <<UserInfo(g.user[1])>> ELSE <<>>)
    /\ UNCHANGED <<store, media, now, sess, auth>>

\* ---- users_router.py ------------------------------------------------------------------
\* payload.get(key)
DictGet(payload, key) == IF Has(payload, key) THEN payload[key] ELSE None

\* x or ""
OrEmpty(v) == IF v = None THEN "" ELSE v

\* len() of the passwords of the model
StrLen(v) ==
    CASE v = "" -> 0
      [] v = "pw" -> 2
      [] v = "cdf2025" -> 7
      [] v = "kazi-2026" -> 9

\* select(User).order_by(User.id.desc())
UsersByIdDesc ==
    CHOOSE s \in [1..Cardinality(users) -> users] :
        \A i \in DOMAIN s : \A j \in DOMAIN s : i < j => s[i].id > s[j].id

list_users(token) ==
    /\ \E g \in require_admin(token) :
           Respond("list_users", [token |-> token], g.status,
                   IF g.status = 200
                   THEN [i \in DOMAIN UsersByIdDesc |->
                            UserInfo(UsersByIdDesc[i])]
                   ELSE <<>>)
    /\ UNCHANGED <<store, media, now, sess, auth>>

\* a create_user that skips the lookup of the username
ExistingUser_unchecked(username) == {}

\* create_user's lookup of the username before it inserts
ExistingUser(username) == UserNamed(username)

create_user(token, payload) ==
    LET req == [token |-> token, payload |-> payload]
        username == Strip(OrEmpty(DictGet(payload, "username")))
        password == Strip(OrEmpty(DictGet(payload, "password")))
        role == IF Has(payload, "role") THEN payload.role ELSE "moderator"
        user == [id |-> nextUserId, username |-> username,
                 password_hash |-> Hash(password),
                 full_name |-> DictGet(payload, "full_name"),
                 email |-> DictGet(payload, "email"), role |-> role,
                 status |-> "active", created_at |-> now,
                 last_login |-> NoTime]
    IN /\ \E g \in require_admin(token) :
              IF g.status # 200
              THEN /\ Respond("create_user", req, g.status, <<>>)
                   /\ UNCHANGED <<users, nextUserId>>
              ELSE IF username = "" \/ password = ""
              THEN /\ Respond("create_user", req, 400, <<>>)
                   /\ UNCHANGED <<users, nextUserId>>
              ELSE IF ExistingUser(username) # {}
              THEN /\ Respond("create_user", req, 400, <<>>)
                   /\ UNCHANGED <<users, nextUserId>>
              ELSE IF role \notin UserRole
              THEN /\ Respond("create_user", req, 500, <<>>)
                   /\ UNCHANGED <<users, nextUserId>>
              ELSE /\ nextUserId <= MaxUserId
                   /\ users' = users \cup {user}
                   /\ nextUserId' = nextUserId + 1
                   /\ Respond("create_user", req, 200, <<UserInfo(user)>>)
       /\ UNCHANGED <<store, media, now, sess, tokens>>

\* update_role and update_status: set one enum column of a user
SetUserColumn(op, column, allowed, token, user_id, payload) ==
    LET req == [token |-> token, user_id |-> user_id, payload |-> payload]
        found == GetUser(user_id)
    IN /\ \E g \in require_admin(token) :
              IF g.status # 200
              THEN /\ Respond(op, req, g.status, <<>>)
                   /\ UNCHANGED users
              ELSE IF found = {}
              THEN /\ Respond(op, req, 404, <<>>)
                   /\ UNCHANGED users
              ELSE IF DictGet(payload, column) \notin allowed
              THEN /\ Respond(op, req, 400, <<>>)
                   /\ UNCHANGED users
              ELSE \E user \in found :
                      LET updated ==
                              [user EXCEPT ![column] = payload[column]]
                      IN /\ users' = (users \ {user}) \cup {updated}
                         /\ Respond(op, req, 200, <<UserInfo(updated)>>)
       /\ UNCHANGED <<store, media, now, sess, nextUserId, tokens>>

update_role(token, user_id, payload) ==
    SetUserColumn("update_role", "role", {"admin", "moderator", "viewer"},
                  token, user_id, payload)

update_status(token, user_id, payload) ==
    SetUserColumn("update_status", "status", {"active", "disabled"},
                  token, user_id, payload)

reset_password(token, user_id, payload) ==
    LET req == [token |-> token, user_id |-> user_id, payload |-> payload]
        new_password == Strip(OrEmpty(DictGet(payload, "password")))
        found == GetUser(user_id)
    IN /\ \E g \in require_admin(token) :
              IF g.status # 200
              THEN /\ Respond("reset_password", req, g.status, <<>>)
                   /\ UNCHANGED users
              ELSE IF StrLen(new_password) < 6
              THEN /\ Respond("reset_password", req, 400, <<>>)
                   /\ UNCHANGED users
              ELSE IF found = {}
              THEN /\ Respond("reset_password", req, 404, <<>>)
                   /\ UNCHANGED users
              ELSE \E user \in found :
                      /\ users' = (users \ {user}) \cup
                             {[user EXCEPT
                                  !.password_hash = Hash(new_password)]}
                      /\ Respond("reset_password", req, 200,
                                 <<[ok |-> TRUE]>>)
       /\ UNCHANGED <<store, media, now, sess, nextUserId, tokens>>

\* a delete_user without the self-protection rule
OwnAccount_unprotected(user, admin_user) == FALSE

\* if user.id == admin_user.id
OwnAccount(user, admin_user) == user.id = admin_user.id

delete_user(token, user_id) ==
    LET req == [token |-> token, user_id |-> user_id]
        found == GetUser(user_id)
    IN /\ \E g \in require_admin(token) :
              IF g.status # 200
              THEN /\ Respond("delete_user", req, g.status, <<>>)
                   /\ UNCHANGED users
              ELSE IF found = {}
              THEN /\ Respond("delete_user", req, 404, <<>>)
                   /\ UNCHANGED users
              ELSE \E user \in found :
                      IF OwnAccount(user, g.user[1])
                      THEN /\ Respond("delete_user", req, 400, <<>>)
                           /\ UNCHANGED users
                      ELSE /\ users' = users \ {user}
                           /\ Respond("delete_user", req, 200,
                                      <<[ok |-> TRUE]>>)
       /\ UNCHANGED <<store, media, now, sess, nextUserId, tokens>>

\* ---- login and the access guard -------------------------------------------------------
UserIds == 1..MaxUserId

AnyUserId == 1..(MaxUserId + 1)

\* tokens no login of the model issued: one signed with another key, one
\* signed with the server's key that carries no subject, and one the server
\* issued to "admin" so long ago that it has expired
StrayTokens ==
    {[sub |-> "admin", exp |-> MaxTime + 1, key |-> "another key"],
     [exp |-> MaxTime + 1, key |-> SECRET_KEY],
     [sub |-> "admin", exp |-> 0, key |-> SECRET_KEY]}

\* the tokens a caller may present
AnyToken == tokens \cup StrayTokens

LoginUserPayloads ==
    {[username |-> "amina", password |-> "kazi-2026", role |-> "viewer"]}

\* "ghost" is never registered; each password is wrong for one of the users
LoginUsernames == {"admin", "amina", "ghost"}
LoginPasswords == {"cdf2025", "kazi-2026"}

StatusPayloads == {[status |-> "active"], [status |-> "disabled"]}

NextLogin ==
    \/ create_admin
    \/ \E token \in tokens : \E payload \in LoginUserPayloads :
           create_user(token, payload)
    \/ \E token \in tokens : \E id \in UserIds :
       \E payload \in StatusPayloads :
           update_status(token, id, payload)
    \/ \E username \in LoginUsernames : \E password \in LoginPasswords :
           login(username, password)
    \/ \E token \in AnyToken : me(token)
    \/ Tick

SpecLogin == Init /\ [][NextLogin]_vars

\* C17: a login whose username is unknown or whose password is wrong is
\* answered 401 without a token and changes no user; a login with a stored
\* username and its password is answered 200 with a token whose subject is
\* the username, and sets last_login of that user and nothing else.
C17_Login ==
    [][(resp'.op = "login" /\ resp' # resp)
       => LET req == resp'.req
              known == {u \in users :
                           /\ u.username = req.username
                           /\ u.password_hash = Hash(req.password)}
          IN IF known = {}
             THEN /\ resp'.status = 401
                  /\ resp'.body = <<>>
                  /\ tokens' = tokens
                  /\ users' = users
             ELSE /\ resp'.status = 200
                  /\ resp'.body[1].access_token.sub = req.username
                  /\ resp'.body[1].access_token \in tokens'
                  /\ decode(resp'.body[1].access_token, SECRET_KEY) # <<>>
                  /\ users' = {IF u \in known
                               THEN [u EXCEPT !.last_login = now]
                               ELSE u : u \in users}
      ]_vars

\* the login of a stored user with a wrong password has been refused; the
\* user's last_login is still that of an earlier login, and another user
\* is stored
C17_Witness ==
    /\ resp.op = "login"
    /\ resp.status = 401
    /\ Cardinality(users) = 2
    /\ \E u \in users :
           /\ u.username = resp.req.username
           /\ u.password_hash # Hash(resp.req.password)
           /\ u.last_login # NoTime
           /\ u.last_login < now

\* the operations behind get_current_user
GuardedOps ==
    {"me", "list_users", "create_user", "update_role", "update_status",
     "reset_password", "delete_user"}

\* C18: a request through the access guard that carries a valid token (the
\* server's signature, not expired) whose subject is a disabled user is
\* answered 403 and changes no user, whenever the token was issued.
C18_DisabledRejected ==
    [][(/\ resp'.op \in GuardedOps
        /\ resp' # resp
        /\ resp'.req.token.key = SECRET_KEY
        /\ Has(resp'.req.token, "sub")
        /\ resp'.req.token.exp >= now
        /\ \E u \in users :
               /\ u.username = resp'.req.token.sub
               /\ u.status = "disabled")
       => (resp'.status = 403 /\ users' = users)
      ]_vars

\* /auth/me was refused (403) for the token of the latest login of a user
\* who is disabled
C18_Witness ==
    /\ resp.op = "me"
    /\ resp.status = 403
    /\ resp.req.token \in tokens
    /\ \E u \in users :
           /\ u.username = resp.req.token.sub
           /\ u.status = "disabled"
           /\ u.last_login = resp.req.token.exp - TokenLifetime

\* ---- user management ------------------------------------------------------------------
\* well-formed payloads (a padded username, an explicit and a default
\* role), one without password and one with a role that does not exist
UserCreatePayloads ==
    {[username |-> " amina ", password |-> "kazi-2026"],
     [username |-> "amina", password |-> "kazi-2026", role |-> "admin"],
     [username |-> "amina"],
     [username |-> "amina", password |-> "kazi-2026", role |-> "owner"]}

RolePayloads == {[role |-> "admin"], [role |-> "viewer"], [role |-> "owner"]}

PasswordPayloads == {[password |-> "kazi-2026"], [password |-> "pw"]}

\* each user's login with the password the account was created with
UserLogins == {<<"admin", "cdf2025">>, <<"amina", "kazi-2026">>}

NextUsers ==
    \/ create_admin
    \/ \E credentials \in UserLogins :
           login(credentials[1], credentials[2])
    \/ \E token \in AnyToken : list_users(token)
    \/ \E token \in AnyToken : \E payload \in UserCreatePayloads :
           create_user(token, payload)
    \/ \E token \in AnyToken : \E id \in AnyUserId :
       \E payload \in RolePayloads :
           update_role(token, id, payload)
    \/ \E token \in AnyToken : \E id \in AnyUserId :
       \E payload \in StatusPayloads :
           update_status(token, id, payload)
    \/ \E token \in AnyToken : \E id \in AnyUserId :
       \E payload \in PasswordPayloads :
           reset_password(token, id, payload)
    \/ \E token \in AnyToken : \E id \in AnyUserId : delete_user(token, id)

SpecUsers == Init /\ [][NextUsers]_vars

\* the user-management operations
UserAdminOps ==
    {"list_users", "create_user", "update_role", "update_status",
     "reset_password", "delete_user"}

\* the token carries the server's signature, has not expired and has a
\* subject
ValidToken(token) ==
    /\ token.key = SECRET_KEY
    /\ token.exp >= now
    /\ Has(token, "sub")

\* the stored users a token names
Callers(token) ==
    IF ValidToken(token) THEN {u \in users : u.username = token.sub} ELSE {}

\* C19: a user-management operation whose token is invalid, has no subject
\* or names no stored user is answered 401; one whose caller is disabled or
\* is not an admin is answered 403; both leave the user table unchanged.
\* Only a valid token of an active admin gets past the guard.
C19_AdminGuard ==
    [][(resp'.op \in UserAdminOps /\ resp' # resp)
       => LET callers == Callers(resp'.req.token)
          IN IF callers = {}
             THEN resp'.status = 401 /\ users' = users
             ELSE IF \E u \in callers :
                        u.status = "disabled" \/ u.role # "admin"
             THEN resp'.status = 403 /\ users' = users
             ELSE resp'.status \notin {401, 403}
      ]_vars

\* a change of role asked with the valid token of an active user who is
\* not an admin has been refused (403)
C19_Witness ==
    /\ resp.op = "update_role"
    /\ resp.status = 403
    /\ resp.req.token \in tokens
    /\ GetUser(resp.req.user_id) # {}
    /\ \E u \in Callers(resp.req.token) :
           u.status = "active" /\ u.role # "admin"

\* C20: delete_user by an admin with the admin's own id is refused and the
\* user table stays as it is; with the id of another stored user it
\* succeeds and removes that user and no other.
C20_SelfDelete ==
    [][(/\ resp'.op = "delete_user"
        /\ resp' # resp
        /\ resp'.status \notin {401, 403})
       => \A caller \in Callers(resp'.req.token) :
          \A target \in GetUser(resp'.req.user_id) :
              IF target.id = caller.id
              THEN resp'.status = 400 /\ users' = users
              ELSE resp'.status = 200 /\ users' = users \ {target}
      ]_vars

\* an admin's delete of the admin's own account has been refused while
\* another user is stored
C20_Witness ==
    /\ resp.op = "delete_user"
    /\ resp.status = 400
    /\ Cardinality(users) = 2
    /\ \E caller \in Callers(resp.req.token) :
           caller.id = resp.req.user_id /\ caller \in users

\* ---- create_user under concurrent requests --------------------------------------------
\* user.username is declared unique: no two rows share it
UsernameKeyOk(us) ==
    \A u1 \in us : \A u2 \in us : u1.username = u2.username => u1 = u2

\* create_user in request r up to the construction of the User: the guard,
\* the required fields, the lookup of the username and the role
create_user_check(r, token, payload) ==
    LET req == [token |-> token, payload |-> payload]
        username == Strip(OrEmpty(DictGet(payload, "username")))
        password == Strip(OrEmpty(DictGet(payload, "password")))
        role == IF Has(payload, "role") THEN payload.role ELSE "moderator"
    IN /\ sess[r].pc = "idle"
       /\ \E g \in require_admin(token) :
              IF g.status # 200
              THEN /\ Respond("create_user", req, g.status, <<>>)
                   /\ UNCHANGED sess
              ELSE IF username = "" \/ password = ""
              THEN /\ Respond("create_user", req, 400, <<>>)
                   /\ UNCHANGED sess
              ELSE IF ExistingUser(username) # {}
              THEN /\ Respond("create_user", req, 400, <<>>)
                   /\ UNCHANGED sess
              ELSE IF role \notin UserRole
              THEN /\ Respond("create_user", req, 500, <<>>)
                   /\ UNCHANGED sess
              ELSE /\ sess' = [sess EXCEPT ![r] =
                                  [pc |-> "checked", req |-> req]]
                   /\ UNCHANGED resp
       /\ UNCHANGED <<store, media, now, auth>>

\* the insert of request r and its commit: the store refuses a second row
\* with the username, the handler does not catch it
create_user_commit(r) ==
    /\ sess[r].pc = "checked"
    /\ LET req == sess[r].req
           payload == req.payload
           user == [id |-> nextUserId,
                    username |-> Strip(payload.username),
                    password_hash |-> Hash(Strip(payload.password)),
                    full_name |-> DictGet(payload, "full_name"),
                    email |-> DictGet(payload, "email"),
                    role |-> IF Has(payload, "role") THEN payload.role
                             ELSE "moderator",
                    status |-> "active", created_at |-> now,
                    last_login |-> NoTime]
       IN IF UsernameKeyOk(users \cup {user})
          THEN /\ nextUserId <= MaxUserId
               /\ users' = users \cup {user}
               /\ nextUserId' = nextUserId + 1
               /\ Respond("create_user", req, 200, <<UserInfo(user)>>)
          ELSE /\ Respond("create_user", req, 500, <<>>)
               /\ UNCHANGED <<users, nextUserId>>
    /\ sess' = [sess EXCEPT ![r] = [pc |-> "idle"]]
    /\ UNCHANGED <<store, media, now, tokens>>

\* two well-formed payloads of one username, and one with a role that does
\* not exist
UniquePayloads ==
    {[username |-> " amina ", password |-> "kazi-2026"],
     [username |-> "amina", password |-> "kazi-2026", role |-> "viewer"],
     [username |-> "amina", password |-> "kazi-2026", role |-> "owner"],
     [username |-> "admin", password |-> "pw"]}

NextUnique ==
    \/ create_admin
    \/ \E credentials \in UserLogins :
           login(credentials[1], credentials[2])
    \/ \E token \in tokens : \E payload \in UniquePayloads :
           create_user(token, payload)
    \/ \E r \in Requests : \E token \in tokens :
       \E payload \in UniquePayloads :
           create_user_check(r, token, payload)
    \/ \E r \in Requests : create_user_commit(r)
    \/ \E token \in tokens : \E id \in UserIds : delete_user(token, id)

SpecUnique == Init /\ [][NextUnique]_vars

\* the username a create_user request asks for
RequestedUsername(req) == Strip(OrEmpty(DictGet(req.payload, "username")))

\* C21: no two stored users share a username.  A create_user that gets past
\* the guard and finds its username stored is answered 400 and stores no
\* user; a create_user whose insert meets a username another request stored
\* in the meantime stores no user either.
C21_UniqueUsername ==
    [][ /\ UsernameKeyOk(users')
        /\ (/\ resp'.op = "create_user"
            /\ resp' # resp
            /\ UserNamed(RequestedUsername(resp'.req)) # {})
           => /\ users' = users
              /\ (sess' = sess /\ resp'.status \notin {401, 403})
                     => resp'.status = 400
      ]_vars

\* a create_user for the username of a stored user other than the caller
\* has been answered 400
C21_Witness ==
    /\ resp.op = "create_user"
    /\ resp.status = 400
    /\ Cardinality(users) = 2
    /\ \E u \in users :
           /\ u.username = RequestedUsername(resp.req)
           /\ u.username # resp.req.token.sub

\* ---- update_project and the project's id ----------------------------------------------
\* PUT bodies: without an id, with the id of each project, and with a null id
IdentProjectBodies ==
    {[title |-> "Borehole A", category |-> "Water", budget |-> "2500000",
      constituency_code |-> "001"]}
    \cup
    {[id |-> i, title |-> "Borehole A", category |-> "Water",
      budget |-> "2500000", constituency_code |-> "001"] :
        i \in {NoId} \cup ProjectIds}

IdentAwardPayloads ==
    {[project_id |-> p, contractor_id |-> 1] : p \in ProjectIds}

NextIdent ==
    \/ \E body \in AwardConstituencyBodies : create_constituency(body)
    \/ \E body \in AwardProjectBodies : create_project(body)
    \/ create_contractor(NextContractorPayload)
    \/ \E payload \in IdentAwardPayloads : create_award(payload)
    \/ \E id \in AnyProjectId : \E body \in IdentProjectBodies :
           update_project(id, body)
    \/ \E id \in ProjectIds : delete_project(id)

SpecIdent == Init /\ [][NextIdent]_vars

\* C24: after an update_project answered 200 a project is stored under the
\* id of the path, and every other project row is as it was, whatever id
\* the body carries.
C24_IdUnchanged ==
    [][(/\ resp'.op = "update_project"
        /\ resp' # resp
        /\ resp'.status = 200)
       => /\ \E p \in projects' : p.id = resp'.req.project_id
          /\ \A q \in projects :
                 q.id # resp'.req.project_id => q \in projects'
          /\ Cardinality(projects') = Cardinality(projects)
      ]_vars

\* an update_project whose body carries the id of the path, or none,
\* leaves the project under its id
C24_SameIdKept ==
    [][(/\ resp'.op = "update_project"
        /\ resp' # resp
        /\ resp'.status = 200
        /\ Has(resp'.req.body, "id") =>
               resp'.req.body.id = resp'.req.project_id)
       => /\ \E p \in projects' : p.id = resp'.req.project_id
          /\ \A q \in projects :
                 q.id # resp'.req.project_id => q \in projects'
      ]_vars

\* ---- the list under concurrent create_award -------------------------------------------
NextDup ==
    \/ \E body \in AwardConstituencyBodies : create_constituency(body)
    \/ \E body \in AwardProjectBodies : create_project(body)
    \/ create_contractor(NextContractorPayload)
    \/ \E r \in Requests : \E payload \in IdentAwardPayloads :
           create_award_check(r, payload)
    \/ \E r \in Requests : create_award_commit(r)
    \/ read_projects(None, None, None, "id_asc", 0, DefaultLimit)

SpecDup == Init /\ [][NextDup]_vars

\* C25: the answer to a list request without filters, with offset 0 and a
\* limit of at least the number of stored projects has one entry for each
\* stored project and no other entry.
C25_EachProjectOnce ==
    (/\ resp.op = "read_projects"
     /\ resp.status = 200
     /\ resp.req.constituency_code = None
     /\ resp.req.category = None
     /\ resp.req.status = None
     /\ resp.req.offset = 0
     /\ resp.req.limit >= Cardinality(projects))
    => /\ Len(resp.body) = Cardinality(projects)
       /\ \A p \in projects :
              Cardinality({i \in DOMAIN resp.body :
                              resp.body[i].id = p.id}) = 1

\* ---- the awards' references under every project, contractor and award operation -------
RefsUpdatePayloads ==
    {[contractor_id |-> k] : k \in AnyContractorId}

\* PUT bodies that re-key the project and change nothing else
RefsProjectBodies ==
    {[id |-> i, title |-> "Borehole A", category |-> "Water",
      budget |-> "2000000", constituency_code |-> "001"] :
        i \in ProjectIds}

NextRefs ==
    \/ \E body \in AwardConstituencyBodies : create_constituency(body)
    \/ \E body \in AwardProjectBodies : create_project(body)
    \/ \E id \in ProjectIds : \E body \in RefsProjectBodies :
           update_project(id, body)
    \/ \E id \in ProjectIds : delete_project(id)
    \/ create_contractor(NextContractorPayload)
    \/ \E id \in ContractorIds : delete_contractor(id)
    \/ \E payload \in IdentAwardPayloads : create_award(payload)
    \/ \E id \in AwardIds : \E data \in RefsUpdatePayloads :
           update_award(id, data)
    \/ \E id \in AwardIds : delete_award(id)

SpecRefs == Init /\ [][NextRefs]_vars

\* C26: every stored award's project_id is the id of a stored project and
\* its contractor_id the id of a stored contractor.
C26_NoDanglingAward ==
    \A a \in awards :
        /\ \E p \in projects : p.id = a.project_id
        /\ \E k \in contractors : k.id = a.contractor_id

\* the delete of a contractor an award references has been refused, and so
\* has, before it, nothing that would have removed the award
C26_Witness ==
    /\ resp.op = "delete_contractor"
    /\ resp.status = 500
    /\ \E a \in awards : a.contractor_id = resp.req.contractor_id
    /\ Cardinality(contractors) = 2

\* ---- the last active admin ------------------------------------------------------------
ActiveAdmins(us) == {u \in us : u.role = "admin" /\ u.status = "active"}

\* C29: a user-management operation that starts with an active admin stored
\* ends with an active admin stored.
C29_ActiveAdminRemains ==
    [][(/\ resp'.op \in UserAdminOps
        /\ resp' # resp
        /\ ActiveAdmins(users) # {})
       => ActiveAdmins(users') # {}
      ]_vars

\* create_user, reset_password and delete_user keep an active admin stored
C29_DeleteKeepsAdmin ==
    [][(/\ resp'.op \in {"create_user", "reset_password", "delete_user"}
        /\ resp' # resp
        /\ ActiveAdmins(users) # {})
       => ActiveAdmins(users') # {}
      ]_vars

\* ---- the import is atomic per file ----------------------------------------------------
\* reading the record raises: it is not skipped and a conversion fails
RaisingRecord(record) ==
    /\ RecordKey(record)[1] # ""
    /\ RecordKey(record)[2] # ""
    /\ ImportPayload(record) = <<>>

\* C30: an import_csv of a file with a record whose conversion raises leaves
\* the project table as it was: nothing the earlier records of the file
\* created or updated is stored.
C30_AtomicPerFile ==
    [][(/\ resp'.op = "import_csv"
        /\ resp' # resp
        /\ \E i \in DOMAIN resp'.req : RaisingRecord(resp'.req[i]))
       => /\ projects' = projects
          /\ resp'.status = 1
      ]_vars

\* an import whose first record is valid and new and whose second raises
\* has ended, and the first record's project is not stored
C30_Witness ==
    /\ resp.op = "import_csv"
    /\ Len(resp.req) = 2
    /\ ValidRecord(resp.req[1])
    /\ RaisingRecord(resp.req[2])
    /\ RowsOfKey(projects, RecordKey(resp.req[1])) = {}
    /\ projects # {}

\* ---- models/feedback.py, feedback_router.py -------------------------------------------
FeedbackRequired == {"project_id", "message"}

\* Feedback's column defaults; id and created_at are filled by the caller
FeedbackDefaults ==
    [name |-> None, email |-> None, ip_address |-> None,
     status |-> "pending"]

GetFeedback(id) == {f \in feedbacks : f.id = id}

\* request validation of a Feedback body: the required fields
ValidFeedbackBody(feedback) == FeedbackRequired \subseteq DOMAIN feedback

\* a submit_feedback that keeps the ip_address of the body
OriginAddress_fromBody(feedback, client) ==
    IF Has(feedback, "ip_address") THEN feedback.ip_address ELSE client

\* request.client.host if request.client else None; client is the host,
\* None when the request has no client
OriginAddress(feedback, client) == client

submit_feedback(feedback, client) ==
    LET req == [feedback |-> feedback, client |-> client]
        auto == ~Has(feedback, "id") \/ feedback.id = NoId
        id == IF auto THEN nextFeedbackId ELSE feedback.id
        created_at ==
            IF Has(feedback, "created_at") THEN feedback.created_at ELSE now
        row ==
            [f \in {"id", "created_at", "ip_address"} |->
                CASE f = "id" -> id
                  [] f = "created_at" -> created_at
                  [] f = "ip_address" -> OriginAddress(feedback, client)]
                @@ WithDefaults(feedback, FeedbackDefaults)
    IN /\ IF ~ValidFeedbackBody(feedback)
          THEN /\ Respond("submit_feedback", req, 422, <<>>)
               /\ UNCHANGED <<feedbacks, nextFeedbackId>>
          ELSE IF GetProject(feedback.project_id) = {}
          THEN /\ Respond("submit_feedback", req, 404, <<>>)
               /\ UNCHANGED <<feedbacks, nextFeedbackId>>
          ELSE /\ id <= MaxFeedbackId
               /\ nextFeedbackId' =
                      IF auto THEN nextFeedbackId + 1 ELSE nextFeedbackId
               /\ IF /\ GetFeedback(id) = {}
                     /\ FeedbackFkOk(feedbacks \cup {row}, projects)
                  THEN /\ feedbacks' = feedbacks \cup {row}
                       /\ Respond("submit_feedback", req, 201,
                                  <<[message |-> "Thank you!"]>>)
                  ELSE /\ Respond("submit_feedback", req, 500, <<>>)
                       /\ UNCHANGED feedbacks
       /\ UNCHANGED <<store, now, sess, auth, images, nextImageId, bucket,
                      nextUuid>>

\* a moderation that accepts every status value
StatusAccepted_any(new_status) == TRUE

\* new_status in ["approved", "rejected"]
StatusAccepted(new_status) == new_status \in {"approved", "rejected"}

update_feedback_status(feedback_id, status_update) ==
    LET req == [feedback_id |-> feedback_id, status_update |-> status_update]
        found == GetFeedback(feedback_id)
        new_status == DictGet(status_update, "status")
    IN /\ IF found = {}
          THEN /\ Respond("update_feedback_status", req, 404, <<>>)
               /\ UNCHANGED feedbacks
          ELSE IF ~StatusAccepted(new_status)
          THEN /\ Respond("update_feedback_status", req, 400, <<>>)
               /\ UNCHANGED feedbacks
          ELSE \E feedback \in found :
                  /\ feedbacks' = (feedbacks \ {feedback}) \cup
                         {[feedback EXCEPT !.status = new_status]}
                  /\ Respond("update_feedback_status", req, 200,
                             <<[message |-> new_status]>>)
       /\ UNCHANGED <<store, now, sess, auth, nextFeedbackId, images,
                      nextImageId, bucket, nextUuid>>

\* ---- core/minio_client.py, project_image_router.py ------------------------------------
AllowedTypes == {"image/jpeg", "image/jpg", "image/png", "image/webp"}

\* file.filename or "unknown.jpg"
FilenameOr(filename) ==
    IF filename \in {None, ""} THEN "unknown.jpg" ELSE filename

\* filename.split(".")[-1].lower() if "." in filename else "jpg"
Ext(filename) ==
    CASE filename = "site.PNG" -> "png"
      [] filename = "pump.webp" -> "webp"
      [] filename = "unknown.jpg" -> "jpg"
      [] filename = "photo" -> "jpg"

\* f"projects/{project_id}/{uuid.uuid4()}.{ext}": the uuid is one never
\* drawn before
ObjectName(filename, project_id) ==
    <<"projects", project_id, nextUuid, Ext(filename)>>

\* an upload that reports success whatever put_object did
upload_project_image_swallowing(outcome, filename, project_id) ==
    <<ObjectName(filename, project_id)>>

\* <<object_name>> after put_object stored the object, <<>> when it raised
\* (outcome is what the object storage did with the put)
upload_project_image(outcome, filename, project_id) ==
    IF outcome = "stored" THEN <<ObjectName(filename, project_id)>> ELSE <<>>

\* what the put does: it stores the object, or raises the SDK's S3Error
\* (re-raised as Exception) or an error of the connection
PutOutcomes == {"stored", "S3Error", "MaxRetryError"}

\* file is [content_type, contents, filename]; contents is "" for an empty
\* file
upload_image(project_id, caption, uploaded_by, file) ==
    LET req == [project_id |-> project_id, caption |-> caption,
                uploaded_by |-> uploaded_by, file |-> file]
        filename == FilenameOr(file.filename)
    IN /\ IF GetProject(project_id) = {}
          THEN /\ Respond("upload_image", req, 404, <<>>)
               /\ UNCHANGED <<images, nextImageId, bucket, nextUuid>>
          ELSE IF file.content_type \notin AllowedTypes
          THEN /\ Respond("upload_image", req, 400, <<>>)
               /\ UNCHANGED <<images, nextImageId, bucket, nextUuid>>
          ELSE IF file.contents = ""
          THEN /\ Respond("upload_image", req, 400, <<>>)
               /\ UNCHANGED <<images, nextImageId, bucket, nextUuid>>
          ELSE \E outcome \in PutOutcomes :
                  LET object_name ==
                          upload_project_image(outcome, filename, project_id)
                  IN /\ nextUuid <= MaxUuid
                     /\ nextUuid' = nextUuid + 1
                     /\ bucket' =
                            IF outcome = "stored"
                            THEN bucket \cup {ObjectName(filename, project_id)}
                            ELSE bucket
                     /\ IF object_name = <<>>
                        THEN /\ Respond("upload_image", req, 500, <<>>)
                             /\ UNCHANGED <<images, nextImageId>>
                        ELSE LET db_image ==
                                     [id |-> nextImageId,
                                      project_id |-> project_id,
                                      filename |-> filename,
                                      object_name |-> object_name[1],
                                      caption |-> caption,
                                      uploaded_by |-> uploaded_by,
                                      uploaded_at |-> now]
                             IN /\ nextImageId <= MaxImageId
                                /\ images' = images \cup {db_image}
                                /\ nextImageId' = nextImageId + 1
                                /\ Respond("upload_image", req, 200,
                                           <<db_image>>)
       /\ UNCHANGED <<store, now, sess, auth, feedbacks, nextFeedbackId>>

\* ---- the project images ---------------------------------------------------------------
\* uploads: a PNG, a WebP without file name, a PDF and an empty PNG
ImageFiles ==
    {[content_type |-> "image/png", contents |-> "89504e47",
      filename |-> "site.PNG"],
     [content_type |-> "image/webp", contents |-> "52494646",
      filename |-> None],
     [content_type |-> "application/pdf", contents |-> "25504446",
      filename |-> "photo"],
     [content_type |-> "image/png", contents |-> "",
      filename |-> "site.PNG"]}

NextImage ==
    \/ \E body \in AwardConstituencyBodies : create_constituency(body)
    \/ \E body \in AwardProjectBodies : create_project(body)
    \/ \E id \in ProjectIds : delete_project(id)
    \/ \E id \in AnyProjectId : \E file \in ImageFiles :
           upload_image(id, None, "admin", file)

SpecImage == Init /\ [][NextImage]_vars

\* C22: every stored ProjectImage names an object the bucket holds.  An
\* upload_image for an unknown project is answered 404, one with a content
\* type that is no allowed image type or with an empty file 400, one whose
\* put the object storage refused 500; none of them stores a ProjectImage.
\* The only upload that stores a row is answered 200, and its row names the
\* object its put stored.
C22_RowAfterUpload ==
    [][ /\ \A i \in images' : i.object_name \in bucket'
        /\ (resp'.op = "upload_image" /\ resp' # resp)
           => /\ GetProject(resp'.req.project_id) = {}
                     => resp'.status = 404
              /\ (\/ resp'.req.file.content_type \notin AllowedTypes
                  \/ resp'.req.file.contents = "")
                     => resp'.status \in {400, 404}
              /\ bucket' = bucket => resp'.status # 200
              /\ resp'.status # 200 => images' = images
              /\ resp'.status = 200
                     => /\ resp'.body[1].object_name \in bucket' \ bucket
                        /\ images' = images \cup {resp'.body[1]}
      ]_vars

\* the object storage has refused the put of a well-formed upload for a
\* stored project that has an image already: no second row is stored
C22_Witness ==
    /\ resp.op = "upload_image"
    /\ resp.status = 500
    /\ GetProject(resp.req.project_id) # {}
    /\ Cardinality(images) = 1
    /\ \A i \in images : i.project_id = resp.req.project_id

\* ---- the citizens' feedback -----------------------------------------------------------
\* bodies: the required fields only, for stored and unknown projects; one
\* that also sets the server's fields (ip_address, status); one that sets
\* the id and the default status; one without message
FeedbackBodies ==
    {[project_id |-> p, message |-> "The pump is not working."] :
        p \in {1, MaxProjectId + 1}}
    \cup
    {[project_id |-> 1, message |-> "The pump is not working.",
      ip_address |-> "198.51.100.9", status |-> "approved"],
     [id |-> 1, project_id |-> 1, message |-> "The pump is not working.",
      name |-> "John Doe", status |-> "pending"],
     [project_id |-> 1]}

\* request.client.host, None for a request without client
Clients == {"203.0.113.7", None}

StatusUpdates ==
    {[status |-> "approved"], [status |-> "rejected"],
     [status |-> "pending"], [state |-> "approved"]}

AnyFeedbackId == 1..(MaxFeedbackId + 1)

NextFeedback ==
    \/ \E body \in AwardConstituencyBodies : create_constituency(body)
    \/ \E body \in AwardProjectBodies : create_project(body)
    \/ \E id \in ProjectIds : delete_project(id)
    \/ \E feedback \in FeedbackBodies : \E client \in Clients :
           submit_feedback(feedback, client)
    \/ \E id \in AnyFeedbackId : \E status_update \in StatusUpdates :
           update_feedback_status(id, status_update)

SpecFeedback == Init /\ [][NextFeedback]_vars

\* the rows a step stores
NewFeedback == feedbacks' \ feedbacks

\* C23: a submit_feedback whose project_id names no stored project is
\* answered 404 and stores nothing; every row a submit_feedback stores
\* references a stored project and has the address the request came from
\* as ip_address, whatever ip_address the body carries.
C23_FeedbackProjectAndOrigin ==
    [][(resp'.op = "submit_feedback" /\ resp' # resp)
       => /\ (/\ ValidFeedbackBody(resp'.req.feedback)
              /\ GetProject(resp'.req.feedback.project_id) = {})
             => (resp'.status = 404 /\ feedbacks' = feedbacks)
          /\ resp'.status # 201 => feedbacks' = feedbacks
          /\ resp'.status = 201 => Cardinality(NewFeedback) = 1
          /\ \A f \in NewFeedback :
                /\ GetProject(f.project_id) # {}
                /\ f.project_id = resp'.req.feedback.project_id
                /\ f.ip_address = resp'.req.client
      ]_vars

\* a feedback whose body carried an ip_address has been stored with the
\* origin's address
C23_Witness ==
    /\ resp.op = "submit_feedback"
    /\ resp.status = 201
    /\ Has(resp.req.feedback, "ip_address")
    /\ resp.req.feedback.ip_address # resp.req.client
    /\ resp.req.client # None
    /\ \E f \in feedbacks : f.ip_address = resp.req.client

\* C27: every row a submit_feedback stores has status pending, whatever
\* status the body carries.
C27_StoredPending ==
    [][(resp'.op = "submit_feedback" /\ resp' # resp)
       => \A f \in NewFeedback : f.status = "pending"
      ]_vars

\* a submit_feedback whose body sets no status stores its row as pending
C27_DefaultPending ==
    [][(/\ resp'.op = "submit_feedback"
        /\ resp' # resp
        /\ ~Has(resp'.req.feedback, "status"))
       => \A f \in NewFeedback : f.status = "pending"
      ]_vars

\* the status an update_feedback_status request asks for
RequestedStatus(req) == DictGet(req.status_update, "status")

\* C28: an update_feedback_status for an unknown feedback_id is answered
\* 404, one for a stored feedback with a status other than approved and
\* rejected is answered 400, and both leave the feedback table unchanged;
\* an accepted one sets the status of that feedback and nothing else.  No
\* step takes a feedback from approved or rejected back to pending.
C28_ModerationStatus ==
    [][ /\ (resp'.op = "update_feedback_status" /\ resp' # resp)
           => /\ GetFeedback(resp'.req.feedback_id) = {}
                    => (resp'.status = 404 /\ feedbacks' = feedbacks)
              /\ (/\ GetFeedback(resp'.req.feedback_id) # {}
                  /\ RequestedStatus(resp'.req)
                         \notin {"approved", "rejected"})
                    => (resp'.status = 400 /\ feedbacks' = feedbacks)
              /\ resp'.status = 200
                    => /\ RequestedStatus(resp'.req)
                              \in {"approved", "rejected"}
                       /\ feedbacks' =
                              {IF f.id = resp'.req.feedback_id
                               THEN [f EXCEPT
                                        !.status = RequestedStatus(resp'.req)]
                               ELSE f : f \in feedbacks}
        /\ \A f \in feedbacks : \A g \in feedbacks' :
               (/\ g.id = f.id
                /\ f.status \in {"approved", "rejected"})
               => g.status # "pending"
      ]_vars

\* a moderated feedback has been asked back to pending and the request
\* refused
C28_Witness ==
    /\ resp.op = "update_feedback_status"
    /\ resp.status = 400
    /\ RequestedStatus(resp.req) = "pending"
    /\ \E f \in feedbacks :
           /\ f.id = resp.req.feedback_id
           /\ f.status = "rejected"
           /\ f.project_id \in {p.id : p \in projects}

====
